---- MODULE Spec2Model ----
(***************************************************************************)
(* A model of the MQTT broker core of zjb1001/mqtt: the outbound QoS       *)
(* engine of PublishHandler (src/src/publish.py), the router and session   *)
(* acknowledgment path of MessageHandler (src/src/message_handler.py) and  *)
(* the subscription index of SubscriptionHandler (src/src/subscribe.py).   *)
(*                                                                         *)
(* Python objects that are shared by reference (a QoSMessage is held by a  *)
(* pending table and by the retry task that was started for it) are kept   *)
(* in a heap: a sequence of records, an object being its index.  A dict is *)
(* a function whose DOMAIN is the set of its keys.  Time is not modelled:  *)
(* an asyncio.sleep ends whenever the scheduler runs the wake-up action.   *)
(***************************************************************************)
EXTENDS Integers, Sequences, FiniteSets, TLC

(***************************************************************************)
(* Bounds of the model and constants of the program                        *)
(***************************************************************************)

\* Messages a run may add to the pending tables (PublishHandler's and the
\* sessions' together)
MaxMsgs == 1

\* self.max_retries of PublishHandler and of MessageHandler
max_retries == 3

\* _get_next_packet_id: (self.next_packet_id + 1) % 65536
PacketIdModulus == 65536

QoSLevel == {0, 1, 2}
AT_MOST_ONCE == 0

\* The client ids of the model, and the packet ids a test harness gives the
\* messages it puts into a session.
Clients == {"c1", "c2"}
HarnessIds == {1, 2}

\* The clean_session flag the harness builds its SessionState objects with
\* (MessageHandler never reads it).
HarnessCleanSession == {TRUE}

\* Subscriber entries the topic tree may hold before further SUBSCRIBE
\* packets are left out of a run
MaxTreeEntries == 2

\* The highest value of next_packet_id at which a run still handles a PUBLISH
MaxRouted == 2

\* Attachments (CONNECT packets) of a run, and calls of
\* handle_client_disconnect the embedding program makes in a run
MaxWriters == 2

MaxDisconnects == 2

\* ConnectPacket.keep_alive: none, and the default
KeepAliveInputs == {0, 60}

\* The client that attaches to the ConnectionHandler, and the will message
\* its CONNECT packets may carry
ConnectClients == {"c1"}

WillInputs ==
    {[topic |-> <<"a", "/", "b">>, payload |-> "w", qos |-> 1, retain |-> TRUE]}

\* The topic of the PUBLISH packets and the topic filters of the SUBSCRIBE
\* packets of the model, as sequences of characters: a/b, and the filters
\* a/b, a/# and the malformed a+.
Topics == {<<"a", "/", "b">>}

FilterInputs ==
    {<<"a", "/", "b">>, <<"a", "/", "#">>, <<"a", "+">>}

\* The requested QoS of a topic filter; the last is out of range.
QoSInputs == {0, 1, 2, 3}

Payloads == {"m"}

\* The packet id of the inbound PUBLISH packets: a publisher sending, and
\* sending again, the PUBLISH it has given id 1
InboundIds == {1}

PublishPackets ==
    [topic : Topics, payload : Payloads, qos : QoSLevel, retain : BOOLEAN,
     packet_id : InboundIds, dup : BOOLEAN]

TopicFilterInputs == [topic : FilterInputs, qos : QoSInputs]

\* SubscribePacket.topic_filters: the packets of the model carry one
\* (topic filter, QoS) pair
SubscribePackets == {<<f>> : f \in TopicFilterInputs}

VARIABLES
    next_packet_id,        \* PublishHandler.next_packet_id
    pending_qos_messages,  \* PublishHandler.pending_qos_messages: id -> object
    qos_messages,          \* heap of the QoSMessage objects publish_message made
    retry_tasks,           \* the tasks publish_message created, one per object
    retransmit_callback,   \* PublishHandler.retransmit_callback is set
    sessions,              \* MessageHandler.sessions: client id -> SessionState
    session_messages,      \* heap of the QoSMessage objects tracked in sessions
    session_tasks,         \* the MessageHandler._handle_qos_retry tasks
    carried,               \* messages in flight when the run starts (never changes)
    raised,                \* the exception the last step raised ("none": none)
    unmatched_ack,         \* the last step was an acknowledgment that named no
                           \* pending message when it arrived
    topic_tree,            \* SubscriptionHandler.topic_tree: path -> TopicNode
    subscription_sessions, \* SubscriptionHandler.sessions, in insertion order
    retained_messages,     \* MessageQueue.retained_messages: topic -> message
    last_publish,          \* the PublishPacket the last step handled, if it
                           \* was a call of _handle_publish, and the subscribers
                           \* get_matching_subscribers returned for it
    connections,           \* ConnectionHandler.connections: client id -> writer
    writers,               \* heap of the StreamWriter objects of the attachments,
                           \* each with its handshake and its keep-alive monitor
    session_states,        \* ConnectionHandler.session_states
    will_messages,         \* ConnectionHandler.will_messages
    disconnects,           \* the calls of handle_client_disconnect that wait in wait_closed
    message_handler,       \* ConnectionHandler has the attribute message_handler
    will_log,              \* the will packets the last step handed to _handle_publish
    return_codes           \* the list the last step's handle_subscribe returned

pubVars == <<next_packet_id, pending_qos_messages, qos_messages, retry_tasks,
             retransmit_callback>>

sessVars == <<sessions, session_messages, session_tasks>>

routerVars == <<topic_tree, subscription_sessions, retained_messages>>

connVars == <<connections, writers, session_states, will_messages, disconnects,
              message_handler, will_log>>

\* last_publish of a step that is no call of _handle_publish.
NoPublish ==
    [handled |-> FALSE, packet_id |-> 0, qos |-> 0, dup |-> FALSE,
     subscribers |-> <<>>]

\* A step that is no acknowledgment, no publish and no SUBSCRIBE, and
\* raises nothing.
Quiet ==
    /\ raised' = "none"
    /\ unmatched_ack' = FALSE
    /\ return_codes' = <<>>
    /\ last_publish' = NoPublish

\* The run may add another message.
MayAddMessage == Len(qos_messages) + Len(session_messages) < MaxMsgs + carried

vars == <<next_packet_id, pending_qos_messages, qos_messages, retry_tasks,
          retransmit_callback, sessions, session_messages, session_tasks, carried,
          raised, unmatched_ack, topic_tree, subscription_sessions,
          retained_messages, last_publish, connections, writers,
          session_states, will_messages, disconnects, message_handler, will_log,
          return_codes>>

(***************************************************************************)
(* Dict helpers                                                            *)
(***************************************************************************)

DictSet(d, k, v) == [x \in DOMAIN d \cup {k} |-> IF x = k THEN v ELSE d[x]]

DictDel(d, k) == [x \in DOMAIN d \ {k} |-> d[x]]

EmptyDict == [x \in {} |-> 0]

(***************************************************************************)
(* session.py: QoSMessage                                                  *)
(***************************************************************************)

NewQoSMessage(id, qos) ==
    [message_id |-> id, qos_level |-> qos, retry_count |-> 0,
     state |-> "PENDING", ack_received |-> FALSE]

(***************************************************************************)
(* publish.py: PublishHandler                                              *)
(***************************************************************************)

\* The id _get_next_packet_id returns, and the counter it leaves behind.
get_next_packet_id_next(n) == (n + 1) % PacketIdModulus

get_next_packet_id(n) == [packet_id |-> n, next |-> get_next_packet_id_next(n)]

\* A retry task: the PublishPacket it owns (packet_id, dup), the object it
\* bound at its start (0: none yet) and its local retry_count.  At pc
\* "callback" it is awaiting the retransmit callback it has called.
NewRetryTask(id) ==
    [packet_id |-> id, dup |-> FALSE, pc |-> "start",
     qos_message |-> 0, retry_count |-> 0]

publish_message(qos) ==
    /\ MayAddMessage
    /\ IF qos # AT_MOST_ONCE
       THEN LET r == get_next_packet_id(next_packet_id)
                obj == Len(qos_messages) + 1
            IN /\ next_packet_id' = r.next
               /\ qos_messages' = Append(qos_messages, NewQoSMessage(r.packet_id, qos))
               /\ pending_qos_messages' = DictSet(pending_qos_messages, r.packet_id, obj)
               /\ retry_tasks' = Append(retry_tasks, NewRetryTask(r.packet_id))
       ELSE /\ UNCHANGED <<next_packet_id, qos_messages, pending_qos_messages, retry_tasks>>
    /\ UNCHANGED <<retransmit_callback, sessVars, carried, routerVars, connVars>>
    /\ Quiet

set_retransmit_callback(cb) ==
    /\ retransmit_callback' = cb
    /\ UNCHANGED <<next_packet_id, pending_qos_messages, qos_messages, retry_tasks, sessVars, carried, routerVars, connVars>>
    /\ Quiet

\* (mutant) The end of _handle_qos_retry without its cleanup.
RetryCleanup_kept(t, msgs) ==
    [msgs |-> msgs, pending |-> pending_qos_messages]

\* The end of _handle_qos_retry, after its loop: the heap and the pending
\* table it leaves.
RetryCleanup(t, msgs) ==
    LET task == retry_tasks[t]
        m == task.qos_message
    IN IF ~msgs[m].ack_received /\ task.packet_id \in DOMAIN pending_qos_messages
       THEN [msgs |-> [msgs EXCEPT ![m].state = "EXPIRED"],
             pending |-> DictDel(pending_qos_messages, task.packet_id)]
       ELSE [msgs |-> msgs, pending |-> pending_qos_messages]

\* The loop condition of _handle_qos_retry.
RetryLoopCondition(retry_count, msg) ==
    retry_count < max_retries /\ ~msg.ack_received

\* From the loop condition on: sleep again, or clean up and finish.
RetryLoopOrFinish(t, task, msgs) ==
    IF RetryLoopCondition(task.retry_count, msgs[task.qos_message])
    THEN /\ retry_tasks' = [retry_tasks EXCEPT ![t] = [task EXCEPT !.pc = "sleep"]]
         /\ qos_messages' = msgs
         /\ UNCHANGED pending_qos_messages
    ELSE LET c == RetryCleanup(t, msgs)
         IN /\ retry_tasks' = [retry_tasks EXCEPT ![t] = [task EXCEPT !.pc = "done"]]
            /\ qos_messages' = c.msgs
            /\ pending_qos_messages' = c.pending

\* _handle_qos_retry from its start to its first await.
RetryStart(t) ==
    /\ retry_tasks[t].pc = "start"
    /\ IF retry_tasks[t].packet_id \notin DOMAIN pending_qos_messages
       THEN /\ retry_tasks' = [retry_tasks EXCEPT ![t].pc = "done"]
            /\ UNCHANGED <<qos_messages, pending_qos_messages>>
       ELSE LET task == [retry_tasks[t] EXCEPT
                            !.qos_message = pending_qos_messages[retry_tasks[t].packet_id]]
            IN RetryLoopOrFinish(t, task, qos_messages)
    /\ UNCHANGED <<next_packet_id, retransmit_callback, sessVars, carried, routerVars, connVars>>
    /\ Quiet

\* (mutant) No check after asyncio.sleep: the loop never breaks.
RetryInterrupted_never(task) == FALSE

\* The check after asyncio.sleep: the message was acknowledged or its id
\* has left the pending table.
RetryInterrupted(task) ==
    \/ qos_messages[task.qos_message].ack_received
    \/ task.packet_id \notin DOMAIN pending_qos_messages

\* _handle_qos_retry when its asyncio.sleep ends, up to its next await.
RetryWake(t) ==
    /\ retry_tasks[t].pc = "sleep"
    /\ LET task == retry_tasks[t]
       IN IF RetryInterrupted(task)
          THEN LET c == RetryCleanup(t, qos_messages)
               IN /\ retry_tasks' = [retry_tasks EXCEPT ![t].pc = "done"]
                  /\ qos_messages' = c.msgs
                  /\ pending_qos_messages' = c.pending
          ELSE LET n == task.retry_count + 1
                   msgs == [qos_messages EXCEPT ![task.qos_message].retry_count = n]
                   sent == [task EXCEPT !.retry_count = n, !.dup = TRUE]
               IN IF retransmit_callback
                  THEN /\ retry_tasks' = [retry_tasks EXCEPT ![t] =
                                            [sent EXCEPT !.pc = "callback"]]
                       /\ qos_messages' = msgs
                       /\ UNCHANGED pending_qos_messages
                  ELSE RetryLoopOrFinish(t, sent, msgs)
    /\ UNCHANGED <<next_packet_id, retransmit_callback, sessVars, carried, routerVars, connVars>>
    /\ Quiet

\* The awaited retransmit callback returns (ok) or raises, and the task
\* runs on to its next await.
RetryCallbackDone(t, ok) ==
    /\ retry_tasks[t].pc = "callback"
    /\ LET task == retry_tasks[t]
           msgs == [qos_messages EXCEPT ![task.qos_message].state =
                       IF ok THEN "RETRANSMITTED" ELSE "RETRANSMISSION_FAILED"]
       IN RetryLoopOrFinish(t, task, msgs)
    /\ UNCHANGED <<next_packet_id, retransmit_callback, sessVars, carried, routerVars, connVars>>
    /\ Quiet

\* The acknowledgment handlers, as the heap and the pending table they
\* leave and the exception they raise.
handle_puback(packet_id) ==
    IF packet_id \in DOMAIN pending_qos_messages
    THEN LET m == pending_qos_messages[packet_id]
         IN [msgs |-> [qos_messages EXCEPT ![m].ack_received = TRUE,
                                           ![m].state = "COMPLETED"],
             pending |-> DictDel(pending_qos_messages, packet_id),
             raised |-> "none"]
    ELSE [msgs |-> qos_messages, pending |-> pending_qos_messages, raised |-> "none"]

handle_pubrec(packet_id) ==
    IF packet_id \in DOMAIN pending_qos_messages
    THEN LET m == pending_qos_messages[packet_id]
         IN [msgs |-> [qos_messages EXCEPT ![m].state = "PUBREC_RECEIVED"],
             pending |-> pending_qos_messages,
             raised |-> "none"]
    ELSE [msgs |-> qos_messages, pending |-> pending_qos_messages, raised |-> "none"]

\* (mutant) handle_pubcomp without its membership test: the lookup of an
\* unknown id raises KeyError.
handle_pubcomp_unguarded(packet_id) ==
    IF packet_id \in DOMAIN pending_qos_messages
    THEN handle_puback(packet_id)
    ELSE [msgs |-> qos_messages, pending |-> pending_qos_messages, raised |-> "KeyError"]

handle_pubcomp(packet_id) ==
    IF packet_id \in DOMAIN pending_qos_messages
    THEN LET m == pending_qos_messages[packet_id]
         IN [msgs |-> [qos_messages EXCEPT ![m].ack_received = TRUE,
                                           ![m].state = "COMPLETED"],
             pending |-> DictDel(pending_qos_messages, packet_id),
             raised |-> "none"]
    ELSE [msgs |-> qos_messages, pending |-> pending_qos_messages, raised |-> "none"]

\* A handler's outcome becomes the state.
Handled(packet_id, r) ==
    /\ qos_messages' = r.msgs
    /\ pending_qos_messages' = r.pending
    /\ raised' = r.raised
    /\ unmatched_ack' = (packet_id \notin DOMAIN pending_qos_messages)
    /\ return_codes' = <<>>
    /\ last_publish' = NoPublish
    /\ UNCHANGED <<next_packet_id, retry_tasks, retransmit_callback, sessVars, carried, routerVars, connVars>>

\* The client's PUBACK, PUBREC or PUBCOMP for packet_id arrives.
Puback(packet_id) == Handled(packet_id, handle_puback(packet_id))

Pubrec(packet_id) == Handled(packet_id, handle_pubrec(packet_id))

Pubcomp(packet_id) == Handled(packet_id, handle_pubcomp(packet_id))

\* The packet ids a client may acknowledge: every id a message was given,
\* and the id the allocator would give next (never a pending one unless the
\* allocator has wrapped onto it).
AckIds == {qos_messages[m].message_id : m \in DOMAIN qos_messages} \cup {next_packet_id}

(***************************************************************************)
(* session.py: SessionState, and the sessions a broker is given.  Nothing  *)
(* in src/src writes MessageHandler.sessions: the embedding program does   *)
(* (examples/complete_example.py, the tests), and so does the model.       *)
(***************************************************************************)

NewSessionState(clean_session) ==
    [clean_session |-> clean_session, subscriptions |-> <<>>,
     pending_messages |-> EmptyDict]

\* message_handler.sessions[client_id] = SessionState(...): a new, empty
\* session, replacing the one the client had.
RegisterSession(client_id, clean_session) ==
    /\ sessions' = DictSet(sessions, client_id, NewSessionState(clean_session))
    /\ UNCHANGED <<pubVars, session_messages, session_tasks, carried, routerVars, connVars>>
    /\ Quiet

\* del message_handler.sessions[client_id]
RemoveSession(client_id) ==
    /\ client_id \in DOMAIN sessions
    /\ sessions' = DictDel(sessions, client_id)
    /\ UNCHANGED <<pubVars, session_messages, session_tasks, carried, routerVars, connVars>>
    /\ Quiet

\* A MessageHandler retry task: the client id and the QoSMessage object it
\* was given, and the dup flag of the PublishPacket it was given.
NewSessionTask(client_id, m) ==
    [client_id |-> client_id, qos_message |-> m, dup |-> FALSE, pc |-> "start"]

\* A message is put into a session's pending_messages under the first
\* packet id no pending message of the session has, and _handle_qos_retry
\* is started for it, as the tests of MessageHandler do.
TrackMessage(client_id, packet_id, qos) ==
    /\ client_id \in DOMAIN sessions
    /\ packet_id \notin DOMAIN sessions[client_id].pending_messages
    /\ \A i \in HarnessIds :
          i < packet_id => i \in DOMAIN sessions[client_id].pending_messages
    /\ MayAddMessage
    /\ LET m == Len(session_messages) + 1
       IN /\ session_messages' = Append(session_messages, NewQoSMessage(packet_id, qos))
          /\ sessions' = [sessions EXCEPT ![client_id].pending_messages =
                             DictSet(@, packet_id, m)]
          /\ session_tasks' = Append(session_tasks, NewSessionTask(client_id, m))
    /\ UNCHANGED <<pubVars, carried, routerVars, connVars>>
    /\ Quiet

(***************************************************************************)
(* message_handler.py: MessageHandler, the session side                    *)
(***************************************************************************)

\* session.pending_messages.pop(message_id, None) on the session the client
\* id names now.
PopPending(sess, client_id, message_id) ==
    [sess EXCEPT ![client_id].pending_messages = DictDel(@, message_id)]

\* The end of MessageHandler._handle_qos_retry, after its loop: the
\* sessions it leaves.
SessionRetryCleanup(task, msgs) ==
    IF ~msgs[task.qos_message].ack_received /\ task.client_id \in DOMAIN sessions
    THEN PopPending(sessions, task.client_id, msgs[task.qos_message].message_id)
    ELSE sessions

\* The loop condition of MessageHandler._handle_qos_retry.
SessionRetryLoopCondition(msg) ==
    msg.retry_count < max_retries /\ ~msg.ack_received

\* From the loop condition on: sleep again, or clean up and finish.
SessionRetryLoopOrFinish(t, task, msgs) ==
    IF SessionRetryLoopCondition(msgs[task.qos_message])
    THEN /\ session_tasks' = [session_tasks EXCEPT ![t] = [task EXCEPT !.pc = "sleep"]]
         /\ session_messages' = msgs
         /\ UNCHANGED sessions
    ELSE /\ session_tasks' = [session_tasks EXCEPT ![t] = [task EXCEPT !.pc = "done"]]
         /\ session_messages' = msgs
         /\ sessions' = SessionRetryCleanup(task, msgs)

\* MessageHandler._handle_qos_retry from its start to its first await.
SessionRetryStart(t) ==
    /\ session_tasks[t].pc = "start"
    /\ SessionRetryLoopOrFinish(t, session_tasks[t], session_messages)
    /\ UNCHANGED <<pubVars, carried, routerVars, connVars>>
    /\ Quiet

\* MessageHandler._handle_qos_retry when its asyncio.sleep ends, up to its
\* next await.
SessionRetryWake(t) ==
    /\ session_tasks[t].pc = "sleep"
    /\ LET task == session_tasks[t]
           m == task.qos_message
       IN IF session_messages[m].ack_received
          THEN SessionRetryLoopOrFinish(t, task, session_messages)
          ELSE LET msgs == [session_messages EXCEPT ![m].retry_count = @ + 1]
                   sent == IF task.client_id \in DOMAIN sessions
                           THEN [task EXCEPT !.dup = TRUE]
                           ELSE task
               IN SessionRetryLoopOrFinish(t, sent, msgs)
    /\ UNCHANGED <<pubVars, carried, routerVars, connVars>>
    /\ Quiet

AckTypes == {"PUBACK", "PUBREC", "PUBREL", "PUBCOMP"}

\* handle_message_acknowledgment, as the heap and the sessions it leaves and
\* the exception it raises.
handle_message_acknowledgment(client_id, packet_id, ack_type) ==
    IF /\ client_id \in DOMAIN sessions
       /\ packet_id \in DOMAIN sessions[client_id].pending_messages
    THEN LET m == sessions[client_id].pending_messages[packet_id]
         IN IF ack_type = "PUBACK" \/ ack_type = "PUBCOMP"
            THEN [msgs |-> [session_messages EXCEPT ![m].ack_received = TRUE,
                                                    ![m].state = "COMPLETED"],
                  sessions |-> PopPending(sessions, client_id, packet_id),
                  raised |-> "none"]
            ELSE IF ack_type = "PUBREC"
            THEN [msgs |-> [session_messages EXCEPT ![m].state = "PUBREC_RECEIVED"],
                  sessions |-> sessions, raised |-> "none"]
            ELSE IF ack_type = "PUBREL"
            THEN [msgs |-> [session_messages EXCEPT ![m].state = "PUBREL_RECEIVED"],
                  sessions |-> sessions, raised |-> "none"]
            ELSE [msgs |-> session_messages, sessions |-> sessions, raised |-> "none"]
    ELSE [msgs |-> session_messages, sessions |-> sessions, raised |-> "none"]

\* An acknowledgment of a client arrives at the MessageHandler.
Acknowledge(client_id, packet_id, ack_type) ==
    /\ LET r == handle_message_acknowledgment(client_id, packet_id, ack_type)
       IN /\ session_messages' = r.msgs
          /\ sessions' = r.sessions
          /\ raised' = r.raised
    /\ unmatched_ack' = ~(/\ client_id \in DOMAIN sessions
                          /\ packet_id \in DOMAIN sessions[client_id].pending_messages)
    /\ return_codes' = <<>>
    /\ last_publish' = NoPublish
    /\ UNCHANGED <<pubVars, session_tasks, carried, routerVars, connVars>>

(***************************************************************************)
(* Strings and ordered dicts.  A topic or a topic filter is the sequence   *)
(* of its characters, so that str.split and the character tests of the     *)
(* filter validation are computed.  A dict whose iteration order the code  *)
(* relies on is a sequence of key-value pairs in insertion order.          *)
(***************************************************************************)

\* s.split(sep)
RECURSIVE split(_, _)
split(s, sep) ==
    IF \A i \in DOMAIN s : s[i] # sep
    THEN <<s>>
    ELSE LET i == CHOOSE k \in DOMAIN s :
                      s[k] = sep /\ \A j \in 1 .. (k - 1) : s[j] # sep
         IN <<SubSeq(s, 1, i - 1)>> \o split(SubSeq(s, i + 1, Len(s)), sep)

\* ch in s
Contains(s, ch) == \E i \in DOMAIN s : s[i] = ch

\* k in d
OHas(d, k) == \E i \in DOMAIN d : d[i].key = k

\* d[k], for a key d has
OGet(d, k) == d[CHOOSE i \in DOMAIN d : d[i].key = k].value

\* d[k] = v: a key the dict has keeps its place
OSet(d, k, v) ==
    IF OHas(d, k)
    THEN [i \in DOMAIN d |-> IF d[i].key = k THEN [key |-> k, value |-> v] ELSE d[i]]
    ELSE Append(d, [key |-> k, value |-> v])

(***************************************************************************)
(* subscribe.py: TopicNode and SubscriptionHandler.  The topic tree is a   *)
(* function from the path of a node (the segments from the root down) to   *)
(* the node's subscribers and qos_levels; a node's children are the paths  *)
(* one segment longer.                                                     *)
(***************************************************************************)

NewTopicNode == [subscribers |-> {}, qos_levels |-> EmptyDict]

\* The root node SubscriptionHandler.__init__ creates.
RootNode == <<>>

Children(tree, node) ==
    {p \in DOMAIN tree : Len(p) = Len(node) + 1 /\ SubSeq(p, 1, Len(node)) = node}

split_topic(topic) == split(topic, "/")

\* node.subscribers.add(client_id); node.qos_levels[client_id] = qos
AddSubscriber(tree, node, client_id, qos) ==
    [tree EXCEPT ![node] =
        [subscribers |-> tree[node].subscribers \cup {client_id},
         qos_levels |-> DictSet(tree[node].qos_levels, client_id, qos)]]

RECURSIVE add_topic_node(_, _, _, _, _)
add_topic_node(tree, segments, client_id, qos, node) ==
    IF segments = <<>>
    THEN AddSubscriber(tree, node, client_id, qos)
    ELSE LET segment == Head(segments)
             child == Append(node, segment)
             created == IF child \in DOMAIN tree
                        THEN tree
                        ELSE DictSet(tree, child, NewTopicNode)
         IN IF segment = <<"#">>
            THEN AddSubscriber(created, node, client_id, qos)
            ELSE LET marked == IF segment = <<"+">>
                               THEN AddSubscriber(created, node, client_id, qos)
                               ELSE created
                 IN add_topic_node(marked, Tail(segments), client_id, qos, child)

RECURSIVE match_topic(_, _, _, _)
match_topic(tree, pattern, topic, node) ==
    IF pattern = <<>> \/ topic = <<>>
    THEN tree[node].subscribers
    ELSE IF Head(pattern) = <<"#">>
    THEN tree[node].subscribers
    ELSE IF Head(pattern) = <<"+">>
    THEN UNION {match_topic(tree, Tail(pattern), Tail(topic), child) :
                    child \in Children(tree, node)}
    ELSE IF Append(node, Head(pattern)) \in DOMAIN tree /\ Head(pattern) = Head(topic)
    THEN match_topic(tree, Tail(pattern), Tail(topic), Append(node, Head(pattern)))
    ELSE {}

\* A validation that looks at the place of '#' only.
validate_topic_filter_lenient(topic) ==
    \A i \in DOMAIN topic : topic[i] = "#" => i = Len(topic)

validate_topic_filter(topic) ==
    IF topic = <<>>
    THEN FALSE
    ELSE LET segments == split(topic, "/")
         IN \A i \in DOMAIN segments :
               /\ segments[i] # <<>>
               /\ ~(Contains(segments[i], "+") /\ segments[i] # <<"+">>)
               /\ Contains(segments[i], "#")
                  => (segments[i] = <<"#">> /\ i = Len(segments))

validate_qos(qos) == 0 <= qos /\ qos <= 2

\* The return code of a topic filter handle_subscribe refuses.
SubackFailure == 128

\* A loop that keeps the QoS of a filter the session holds.
RECURSIVE subscribe_each_keep(_, _, _, _)
subscribe_each_keep(client_id, topic_filters, i, st) ==
    IF i > Len(topic_filters)
    THEN st
    ELSE LET topic == topic_filters[i].topic
             qos == topic_filters[i].qos
         IN IF ~validate_qos(qos) \/ ~validate_topic_filter(topic)
            THEN subscribe_each_keep(client_id, topic_filters, i + 1,
                     [st EXCEPT !.return_codes = Append(@, SubackFailure)])
            ELSE subscribe_each_keep(client_id, topic_filters, i + 1,
                     [tree |-> add_topic_node(st.tree, split_topic(topic),
                                              client_id, qos, RootNode),
                      sessions |->
                          IF OHas(st.sessions, client_id)
                          THEN OSet(st.sessions, client_id,
                                   [OGet(st.sessions, client_id) EXCEPT
                                       !.subscriptions =
                                           IF OHas(@, topic)
                                           THEN @
                                           ELSE OSet(@, topic, qos)])
                          ELSE st.sessions,
                      return_codes |-> Append(st.return_codes, qos)])

\* A loop that gives up at the first entry it refuses.
RECURSIVE subscribe_each_abort(_, _, _, _)
subscribe_each_abort(client_id, topic_filters, i, st) ==
    IF i > Len(topic_filters)
    THEN st
    ELSE LET topic == topic_filters[i].topic
             qos == topic_filters[i].qos
         IN IF ~validate_qos(qos) \/ ~validate_topic_filter(topic)
            THEN [st EXCEPT !.return_codes = Append(@, SubackFailure)]
            ELSE subscribe_each_abort(client_id, topic_filters, i + 1,
                     [tree |-> add_topic_node(st.tree, split_topic(topic),
                                              client_id, qos, RootNode),
                      sessions |->
                          IF OHas(st.sessions, client_id)
                          THEN OSet(st.sessions, client_id,
                                   [OGet(st.sessions, client_id) EXCEPT
                                       !.subscriptions = OSet(@, topic, qos)])
                          ELSE st.sessions,
                      return_codes |-> Append(st.return_codes, qos)])

\* The loop of handle_subscribe from the i-th topic filter on: the tree and
\* the sessions it leaves and the return codes it has collected.
RECURSIVE subscribe_each(_, _, _, _)
subscribe_each(client_id, topic_filters, i, st) ==
    IF i > Len(topic_filters)
    THEN st
    ELSE LET topic == topic_filters[i].topic
             qos == topic_filters[i].qos
         IN IF ~validate_qos(qos) \/ ~validate_topic_filter(topic)
            THEN subscribe_each(client_id, topic_filters, i + 1,
                     [st EXCEPT !.return_codes = Append(@, SubackFailure)])
            ELSE subscribe_each(client_id, topic_filters, i + 1,
                     [tree |-> add_topic_node(st.tree, split_topic(topic),
                                              client_id, qos, RootNode),
                      sessions |->
                          IF OHas(st.sessions, client_id)
                          THEN OSet(st.sessions, client_id,
                                   [OGet(st.sessions, client_id) EXCEPT
                                       !.subscriptions = OSet(@, topic, qos)])
                          ELSE st.sessions,
                      return_codes |-> Append(st.return_codes, qos)])

handle_subscribe(client_id, topic_filters) ==
    subscribe_each(client_id, topic_filters, 1,
        [tree |-> topic_tree, sessions |-> subscription_sessions,
         return_codes |-> <<>>])

\* The inner loop of get_matching_subscribers, from the j-th subscription
\* of a session on.
RECURSIVE match_patterns(_, _, _, _, _, _)
match_patterns(tree, topic_segments, client_id, subscriptions, j, result) ==
    IF j > Len(subscriptions)
    THEN result
    ELSE match_patterns(tree, topic_segments, client_id, subscriptions, j + 1,
             IF match_topic(tree, split(subscriptions[j].key, "/"),
                            topic_segments, RootNode) # {}
             THEN OSet(result, client_id, subscriptions[j].value)
             ELSE result)

\* The outer loop of get_matching_subscribers, from the i-th session on.
RECURSIVE match_sessions(_, _, _, _, _)
match_sessions(tree, topic_segments, sess, i, result) ==
    IF i > Len(sess)
    THEN result
    ELSE match_sessions(tree, topic_segments, sess, i + 1,
             match_patterns(tree, topic_segments, sess[i].key,
                            sess[i].value.subscriptions, 1, result))

get_matching_subscribers(tree, sess, topic) ==
    match_sessions(tree, split(topic, "/"), sess, 1, <<>>)

\* subscription_handler.sessions[client_id] = SessionState(...): the
\* embedding program gives the SubscriptionHandler a new, empty session for
\* a client that has none (examples/complete_example.py,
\* tests/unit/test_subscribe.py).
RegisterSubscriberSession(client_id, clean_session) ==
    /\ ~OHas(subscription_sessions, client_id)
    /\ subscription_sessions' =
           OSet(subscription_sessions, client_id, NewSessionState(clean_session))
    /\ UNCHANGED <<pubVars, sessVars, carried, topic_tree, retained_messages, connVars>>
    /\ Quiet

\* del subscription_handler.sessions[client_id]: the embedding program
\* removes the session of a client (tests/unit/test_subscribe.py,
\* test_subscription_cleanup).  No method of the SubscriptionHandler
\* touches the topic tree for it.
RemoveSubscriberSession(client_id) ==
    /\ OHas(subscription_sessions, client_id)
    /\ subscription_sessions' =
           SelectSeq(subscription_sessions, LAMBDA e : e.key # client_id)
    /\ UNCHANGED <<pubVars, sessVars, carried, topic_tree, retained_messages, connVars>>
    /\ Quiet

\* Subscriber entries of the topic tree.
TreeEntries(tree) ==
    Cardinality({e \in (DOMAIN tree) \X Clients : e[2] \in tree[e[1]].subscribers})

\* A SUBSCRIBE packet of a client is handled.
Subscribe(client_id, topic_filters) ==
    /\ TreeEntries(topic_tree) < MaxTreeEntries
    /\ LET r == handle_subscribe(client_id, topic_filters)
       IN /\ topic_tree' = r.tree
          /\ subscription_sessions' = r.sessions
          /\ return_codes' = r.return_codes
    /\ raised' = "none"
    /\ unmatched_ack' = FALSE
    /\ last_publish' = NoPublish
    /\ UNCHANGED <<pubVars, sessVars, carried, retained_messages, connVars>>

(***************************************************************************)
(* message_handler.py: MessageQueue and MessageHandler._handle_publish     *)
(***************************************************************************)

\* The fields of the dataclass QoSMessage, and the keyword arguments
\* _handle_publish builds one with.  A keyword that names no field makes
\* the constructor raise TypeError.
QoSMessageFields ==
    {"message_id", "qos_level", "timestamp", "retry_count", "state", "ack_received"}

HandlePublishKeywords == {"message_id", "qos_level", "timestamp", "topic", "payload"}

NewRetainedMessage(packet) ==
    [topic |-> packet.topic, payload |-> packet.payload, qos |-> packet.qos]

\* A store that keeps the first message of a topic.
store_retained_message_once(retained, topic, message) ==
    IF topic \in DOMAIN retained THEN retained ELSE DictSet(retained, topic, message)

store_retained_message(retained, topic, message) == DictSet(retained, topic, message)

Min(a, b) == IF a < b THEN a ELSE b

\* The delivery loop of _handle_publish from the i-th subscriber on: the
\* allocator, the heap, the sessions and the retry tasks it leaves, and the
\* exception that ended it.
RECURSIVE deliver(_, _, _, _)
deliver(packet, subscribers, i, st) ==
    IF i > Len(subscribers)
    THEN st
    ELSE LET client_id == subscribers[i].key
             effective_qos == Min(packet.qos, subscribers[i].value)
         IN IF client_id \notin DOMAIN st.sessions
            THEN deliver(packet, subscribers, i + 1, st)
            ELSE IF effective_qos > AT_MOST_ONCE
            THEN LET r == get_next_packet_id(st.next_packet_id)
                     m == Len(st.msgs) + 1
                 IN IF HandlePublishKeywords \subseteq QoSMessageFields
                    THEN deliver(packet, subscribers, i + 1,
                             [next_packet_id |-> r.next,
                              msgs |-> Append(st.msgs,
                                          NewQoSMessage(r.packet_id, effective_qos)),
                              sessions |->
                                  [st.sessions EXCEPT ![client_id].pending_messages =
                                      DictSet(@, r.packet_id, m)],
                              tasks |-> Append(st.tasks,
                                          [NewSessionTask(client_id, m) EXCEPT
                                              !.dup = packet.dup]),
                              raised |-> "none"])
                    ELSE [st EXCEPT !.next_packet_id = r.next,
                                    !.raised = "TypeError"]
            ELSE deliver(packet, subscribers, i + 1, st)

\* _handle_publish: what it leaves, and the subscribers it has matched.
handle_publish(packet) ==
    LET subscribers ==
            get_matching_subscribers(topic_tree, subscription_sessions, packet.topic)
        st == deliver(packet, subscribers, 1,
                  [next_packet_id |-> next_packet_id, msgs |-> session_messages,
                   sessions |-> sessions, tasks |-> session_tasks,
                   raised |-> "none"])
    IN [retained |-> IF packet.retain
                     THEN store_retained_message(retained_messages, packet.topic,
                                                 NewRetainedMessage(packet))
                     ELSE retained_messages,
        subscribers |-> subscribers,
        st |-> st]

\* A PUBLISH packet is handled by MessageHandler._handle_publish.
HandlePublish(packet) ==
    /\ next_packet_id <= MaxRouted
    /\ LET r == handle_publish(packet)
       IN /\ retained_messages' = r.retained
          /\ next_packet_id' = r.st.next_packet_id
          /\ session_messages' = r.st.msgs
          /\ sessions' = r.st.sessions
          /\ session_tasks' = r.st.tasks
          /\ raised' = r.st.raised
          /\ return_codes' = <<>>
          /\ last_publish' = [handled |-> TRUE, packet_id |-> packet.packet_id,
                              qos |-> packet.qos, dup |-> packet.dup,
                              subscribers |-> r.subscribers]
    /\ unmatched_ack' = FALSE
    /\ UNCHANGED <<pending_qos_messages, qos_messages, retry_tasks,
                   retransmit_callback, carried, topic_tree, subscription_sessions, connVars>>

(***************************************************************************)
(* connection.py: ConnectionHandler.  A StreamWriter is an object of the   *)
(* heap writers; its record also holds the locals of the                   *)
(* handle_new_connection it was given to, the position of that coroutine   *)
(* (pc) and of the keep-alive monitor started for it.  A coroutine gives way to the others *)
(* at writer.drain, writer.wait_closed and asyncio.sleep; awaiting         *)
(* _handle_publish does not, as that coroutine never suspends.             *)
(***************************************************************************)

\* ConnectPacket.will_message is None
NoWill == [topic |-> <<>>, payload |-> "", qos |-> AT_MOST_ONCE, retain |-> FALSE]

\* The writer a coroutine holds in old_writer when it holds none
NoWriter == 0

\* PublishPacket.packet_id is None
NoPacketId == 0

\* The connect_packet of a handle_new_connection that no longer holds one
NoPacket ==
    [client_id |-> "", clean_session |-> FALSE, keep_alive |-> 0,
     will_message |-> NoWill]

\* A StreamWriter and the handle_new_connection coroutine it was given to:
\* client_id is the client id of its CONNECT packet; packet, old_writer and
\* session_present are the coroutine's locals while a later line reads them.
NewWriter(packet) ==
    [client_id |-> packet.client_id, keep_alive |-> packet.keep_alive,
     packet |-> NoPacket, closed |-> FALSE, pc |-> "connack",
     old_writer |-> NoWriter, session_present |-> FALSE, monitor |-> "none",
     heard |-> FALSE]

\* A _process_connect that resumes whatever session it finds.
process_connect_resuming(w, packet) ==
    LET client_id == packet.client_id
        session_present == client_id \in DOMAIN session_states
    IN [connections |-> DictSet(connections, client_id, w),
        session_states |->
            IF ~session_present
            THEN DictSet(session_states, client_id,
                         NewSessionState(packet.clean_session))
            ELSE session_states,
        will_messages |->
            IF packet.will_message # NoWill
            THEN DictSet(will_messages, client_id, packet.will_message)
            ELSE DictDel(will_messages, client_id),
        session_present |-> session_present]

\* _process_connect from "Update to new writer" to its return: the dicts it
\* leaves and the session_present it returns.
process_connect(w, packet) ==
    LET client_id == packet.client_id
        session_present ==
            client_id \in DOMAIN session_states /\ ~packet.clean_session
        popped == IF ~session_present /\ packet.clean_session
                  THEN DictDel(session_states, client_id)
                  ELSE session_states
    IN [connections |-> DictSet(connections, client_id, w),
        session_states |->
            IF ~session_present
            THEN DictSet(popped, client_id, NewSessionState(packet.clean_session))
            ELSE popped,
        will_messages |->
            IF packet.will_message # NoWill
            THEN DictSet(will_messages, client_id, packet.will_message)
            ELSE DictDel(will_messages, client_id),
        session_present |-> session_present]

\* handle_new_connection for a new attachment whose first packet is a
\* well-formed CONNECT, up to its first await that gives way: the drain of
\* the old writer if the client id has one, the drain of the CONNACK if not.
Connect(packet) ==
    /\ Len(writers) < MaxWriters
    /\ LET w == Len(writers) + 1
           client_id == packet.client_id
       IN IF client_id \in DOMAIN connections
          THEN /\ writers' = Append(writers,
                                [NewWriter(packet) EXCEPT
                                    !.pc = "drain_old",
                                    !.packet = packet,
                                    !.old_writer = connections[client_id]])
               /\ UNCHANGED <<connections, session_states, will_messages>>
          ELSE LET r == process_connect(w, packet)
               IN /\ writers' = Append(writers,
                                   [NewWriter(packet) EXCEPT
                                       !.session_present = r.session_present])
                  /\ connections' = r.connections
                  /\ session_states' = r.session_states
                  /\ will_messages' = r.will_messages
    /\ will_log' = <<>>
    /\ UNCHANGED <<pubVars, sessVars, carried, routerVars, disconnects,
                   message_handler>>
    /\ Quiet

\* The writer of a handle_new_connection that has ended, with success or
\* in its except clause.
Ended(writer, success) ==
    [writer EXCEPT !.pc = IF success THEN "established" ELSE "failed",
                   !.closed = IF success THEN @ ELSE TRUE,
                   !.keep_alive = 0,
                   !.packet = NoPacket,
                   !.old_writer = NoWriter,
                   !.session_present = FALSE]

\* await old_writer.drain() ends: it returns, and _process_connect runs on
\* to the drain of the CONNACK, or it raises (the old transport is broken)
\* and handle_new_connection closes the new writer.
OldWriterDrained(w, ok) ==
    /\ writers[w].pc = "drain_old"
    /\ IF ok
       THEN LET r == process_connect(w, writers[w].packet)
            IN /\ writers' = [writers EXCEPT
                                 ![writers[w].old_writer].closed = TRUE,
                                 ![w].pc = "connack",
                                 ![w].packet = NoPacket,
                                 ![w].old_writer = NoWriter,
                                 ![w].session_present = r.session_present]
               /\ connections' = r.connections
               /\ session_states' = r.session_states
               /\ will_messages' = r.will_messages
       ELSE /\ writers' = [writers EXCEPT ![w] = Ended(writers[w], FALSE)]
            /\ UNCHANGED <<connections, session_states, will_messages>>
    /\ will_log' = <<>>
    /\ UNCHANGED <<pubVars, sessVars, carried, routerVars, disconnects,
                   message_handler>>
    /\ Quiet

\* await writer.drain() of _send_connack ends: it returns, and
\* handle_new_connection registers the writer and creates the keep-alive
\* monitor, or it raises and handle_new_connection closes the writer.
ConnackDrained(w, ok) ==
    /\ writers[w].pc = "connack"
    /\ IF ok
       THEN /\ connections' = DictSet(connections, writers[w].client_id, w)
            /\ writers' = [writers EXCEPT
                              ![w] = [Ended(writers[w], TRUE) EXCEPT
                                         !.monitor = IF writers[w].keep_alive > 0
                                                     THEN "start" ELSE "none"]]
       ELSE /\ writers' = [writers EXCEPT ![w] = Ended(writers[w], FALSE)]
            /\ UNCHANGED connections
    /\ will_log' = <<>>
    /\ UNCHANGED <<pubVars, sessVars, carried, routerVars, session_states,
                   will_messages, disconnects, message_handler>>
    /\ Quiet

\* The PublishPacket _process_will_message builds from a will.
WillPacket(will) ==
    [topic |-> will.topic, payload |-> will.payload, qos |-> will.qos,
     retain |-> will.retain, packet_id |-> NoPacketId, dup |-> FALSE]

\* A cleanup that removes every session.
session_cleanup_always(client_id, sess, wills) ==
    [session_states |-> DictDel(sess, client_id),
     will_messages |-> DictDel(wills, client_id)]

\* "Clean session if needed", the end of handle_client_disconnect.
session_cleanup(client_id, sess, wills) ==
    IF client_id \in DOMAIN sess /\ sess[client_id].clean_session
    THEN [session_states |-> DictDel(sess, client_id),
          will_messages |-> DictDel(wills, client_id)]
    ELSE [session_states |-> sess, will_messages |-> wills]

\* A condition that takes every disconnect for unexpected.
will_due_always(client_id, unexpected) ==
    client_id \in DOMAIN will_messages

\* The condition under which handle_client_disconnect calls
\* _process_will_message.
will_due(client_id, unexpected) ==
    unexpected /\ client_id \in DOMAIN will_messages

\* handle_client_disconnect from its start to its await of
\* writer.wait_closed, or to its end if it does not get there, in a state
\* whose writers are wrs.  origin is the writer whose monitor makes the
\* call (NoWriter: the embedding program makes it); an exception of a
\* monitor's call is caught by the monitor.  disconnects holds the calls
\* that wait in wait_closed.
DisconnectStart(client_id, unexpected, origin, wrs) ==
    LET has_will == will_due(client_id, unexpected)
        handed == has_will /\ message_handler
        packet == WillPacket(will_messages[client_id])
        pub == handle_publish(packet)
        failed == handed /\ pub.st.raised # "none"
        wills == IF has_will /\ ~failed
                 THEN DictDel(will_messages, client_id)
                 ELSE will_messages
    IN /\ handed => next_packet_id <= MaxRouted
       /\ IF handed
          THEN /\ will_log' = <<[client_id |-> client_id, packet |-> packet]>>
               /\ retained_messages' = pub.retained
               /\ next_packet_id' = pub.st.next_packet_id
               /\ session_messages' = pub.st.msgs
               /\ sessions' = pub.st.sessions
               /\ session_tasks' = pub.st.tasks
               /\ return_codes' = <<>>
               /\ last_publish' = [handled |-> TRUE, packet_id |-> packet.packet_id,
                                   qos |-> packet.qos, dup |-> packet.dup,
                                   subscribers |-> pub.subscribers]
          ELSE /\ will_log' = <<>>
               /\ UNCHANGED <<retained_messages, next_packet_id, sessVars>>
               /\ return_codes' = <<>>
               /\ last_publish' = NoPublish
       /\ raised' = IF failed /\ origin = NoWriter THEN pub.st.raised ELSE "none"
       /\ unmatched_ack' = FALSE
       /\ IF failed
          THEN /\ writers' = wrs
               /\ UNCHANGED <<will_messages, session_states, disconnects>>
          ELSE IF client_id \in DOMAIN connections
          THEN /\ disconnects' = Append(disconnects,
                                    [client_id |-> client_id,
                                     unexpected |-> unexpected,
                                     origin |-> origin,
                                     writer |-> connections[client_id]])
               /\ writers' = [wrs EXCEPT ![connections[client_id]].closed = TRUE]
               /\ will_messages' = wills
               /\ UNCHANGED session_states
          ELSE LET c == session_cleanup(client_id, session_states, wills)
               IN /\ writers' = wrs
                  /\ will_messages' = c.will_messages
                  /\ session_states' = c.session_states
                  /\ UNCHANGED disconnects
       /\ UNCHANGED <<pending_qos_messages, qos_messages, retry_tasks,
                      retransmit_callback, carried, topic_tree,
                      subscription_sessions, connections, message_handler>>

\* Calls of handle_client_disconnect by the embedding program that wait in
\* wait_closed.
ExplicitDisconnects ==
    Cardinality({d \in DOMAIN disconnects : disconnects[d].origin = NoWriter})

\* The embedding program calls handle_client_disconnect.
Disconnect(client_id, unexpected) ==
    /\ ExplicitDisconnects < MaxDisconnects
    /\ DisconnectStart(client_id, unexpected, NoWriter, writers)

\* A sequence without its i-th element.
RemoveAt(seq, i) == SubSeq(seq, 1, i - 1) \o SubSeq(seq, i + 1, Len(seq))

\* await writer.wait_closed() ends and handle_client_disconnect runs to its
\* end; del self.connections[client_id] raises KeyError if the client id
\* has left connections meanwhile.
DisconnectClosed(d) ==
    /\ LET client_id == disconnects[d].client_id
       IN IF client_id \in DOMAIN connections
          THEN LET c == session_cleanup(client_id, session_states, will_messages)
               IN /\ connections' = DictDel(connections, client_id)
                  /\ session_states' = c.session_states
                  /\ will_messages' = c.will_messages
                  /\ raised' = "none"
          ELSE /\ raised' = IF disconnects[d].origin = NoWriter
                            THEN "KeyError" ELSE "none"
               /\ UNCHANGED <<connections, session_states, will_messages>>
    /\ disconnects' = RemoveAt(disconnects, d)
    /\ unmatched_ack' = FALSE
    /\ return_codes' = <<>>
    /\ last_publish' = NoPublish
    /\ will_log' = <<>>
    /\ UNCHANGED <<pubVars, sessVars, carried, routerVars, writers,
                   message_handler>>

\* _monitor_keep_alive is run for the first time: it tests its loop
\* condition and sleeps.
MonitorStart(w) ==
    /\ writers[w].monitor = "start"
    /\ writers' = [writers EXCEPT ![w].monitor =
                      IF writers[w].client_id \in DOMAIN connections
                      THEN "sleep" ELSE "done"]
    /\ will_log' = <<>>
    /\ UNCHANGED <<pubVars, sessVars, carried, routerVars, connections,
                   session_states, will_messages, disconnects, message_handler>>
    /\ Quiet

\* The asyncio.sleep of _monitor_keep_alive ends: the monitor calls
\* handle_client_disconnect if its client id is in connections, and ends.
MonitorWake(w) ==
    /\ writers[w].monitor = "sleep"
    /\ LET wrs == [writers EXCEPT ![w].monitor = "done", ![w].heard = FALSE]
           client_id == writers[w].client_id
       IN IF client_id \in DOMAIN connections
          THEN DisconnectStart(client_id, TRUE, w, wrs)
          ELSE /\ writers' = wrs
               /\ will_log' = <<>>
               /\ UNCHANGED <<pubVars, sessVars, carried, routerVars, connections,
                              session_states, will_messages, disconnects,
                              message_handler>>
               /\ Quiet

\* A packet of the client (a PINGREQ) arrives on an attachment.  No code
\* of ConnectionHandler reads it: the record only notes that it came.
PacketReceived(w) ==
    /\ writers[w].monitor = "sleep"
    /\ ~writers[w].closed
    /\ ~writers[w].heard
    /\ writers' = [writers EXCEPT ![w].heard = TRUE]
    /\ will_log' = <<>>
    /\ UNCHANGED <<pubVars, sessVars, carried, routerVars, connections,
                   session_states, will_messages, disconnects, message_handler>>
    /\ Quiet

\* handler.message_handler = ...: the embedding program gives the
\* ConnectionHandler its MessageHandler, before it accepts attachments.
AttachMessageHandler ==
    /\ ~message_handler
    /\ writers = <<>>
    /\ message_handler' = TRUE
    /\ UNCHANGED <<pubVars, sessVars, carried, routerVars, connections, writers,
                   session_states, will_messages, disconnects, will_log>>
    /\ Quiet

\* The subscription and the pending message the embedding program has put
\* into a session it shares with the ConnectionHandler.
UsedSession(sess) ==
    [sess EXCEPT !.subscriptions = <<[key |-> <<"a", "/", "b">>, value |-> 1]>>,
                 !.pending_messages = DictSet(EmptyDict, 1, NewQoSMessage(1, 1))]

UseSession(client_id) ==
    /\ client_id \in DOMAIN session_states
    /\ session_states[client_id].subscriptions = <<>>
    /\ session_states' = [session_states EXCEPT
                             ![client_id] = UsedSession(session_states[client_id])]
    /\ will_log' = <<>>
    /\ UNCHANGED <<pubVars, sessVars, carried, routerVars, connections, writers,
                   will_messages, disconnects, message_handler>>
    /\ Quiet

(***************************************************************************)
(* connection.py: the start of handle_new_connection.  What the reader     *)
(* yields is a sequence of bytes, or an error at the first read; a read of *)
(* n bytes returns the bytes that are left if fewer than n are.            *)
(***************************************************************************)

\* MessageType.CONNECT
CONNECT == 1

\* data[pos:pos+n], pos counted from 0
Slice(data, pos, n) == SubSeq(data, pos + 1, Min(pos + n, Len(data)))

\* int.from_bytes(b, 'big')
RECURSIVE from_bytes(_)
from_bytes(b) ==
    IF b = <<>> THEN 0 ELSE from_bytes(SubSeq(b, 1, Len(b) - 1)) * 256 + b[Len(b)]

\* The characters of the bytes the model's packets are written with.
Ascii ==
    (47 :> "/") @@ (49 :> "1") @@ (77 :> "M") @@ (81 :> "Q") @@ (84 :> "T")
    @@ (88 :> "X") @@ (97 :> "a") @@ (98 :> "b") @@ (99 :> "c") @@ (119 :> "w")

\* bytes.decode() raises UnicodeDecodeError
DecodeFails(b) == \E i \in DOMAIN b : b[i] >= 128

\* bytes.decode(), as a sequence of characters
decode(b) == [i \in DOMAIN b |-> Ascii[b[i]]]

\* A sequence of characters as one string
RECURSIVE Text(_)
Text(chars) == IF chars = <<>> THEN "" ELSE Head(chars) \o Text(Tail(chars))

\* The bit of a flags byte with the given weight
Flag(flags, weight) == (flags \div weight) % 2 = 1

\* _decode_connect_packet: ok is FALSE when it raises (an index out of
\* range, bytes that are no UTF-8, a will QoS of 3); protocol_name and
\* protocol_level are its locals of these names, which it reads and drops.
decode_connect_packet(data) ==
    LET protocol_name_len == from_bytes(Slice(data, 0, 2))
        name_bytes == Slice(data, 2, protocol_name_len)
        level_pos == 2 + protocol_name_len
        flags_pos == level_pos + 1
        flags == data[flags_pos + 1]
        will_flag == Flag(flags, 4)
        will_qos == (flags \div 8) % 4
        keep_alive_pos == flags_pos + 1
        client_id_pos == keep_alive_pos + 2
        client_id_len == from_bytes(Slice(data, client_id_pos, 2))
        client_id_bytes == Slice(data, client_id_pos + 2, client_id_len)
        will_pos == client_id_pos + 2 + client_id_len
        will_topic_len == from_bytes(Slice(data, will_pos, 2))
        will_topic == Slice(data, will_pos + 2, will_topic_len)
        will_payload_pos == will_pos + 2 + will_topic_len
        will_payload_len == from_bytes(Slice(data, will_payload_pos, 2))
        will_payload == Slice(data, will_payload_pos + 2, will_payload_len)
        username_pos == IF will_flag
                        THEN will_payload_pos + 2 + will_payload_len
                        ELSE will_pos
        username_len == from_bytes(Slice(data, username_pos, 2))
        username == Slice(data, username_pos + 2, username_len)
    IN IF flags_pos >= Len(data) \/ DecodeFails(name_bytes)
       THEN [ok |-> FALSE, protocol_name |-> <<>>, protocol_level |-> 0,
             packet |-> NoPacket]
       ELSE [ok |-> /\ ~DecodeFails(client_id_bytes)
                    /\ will_flag => (~DecodeFails(will_topic) /\ will_qos <= 2)
                    /\ Flag(flags, 128) => ~DecodeFails(username),
             protocol_name |-> decode(name_bytes),
             protocol_level |-> data[level_pos + 1],
             packet |->
                 IF \/ DecodeFails(client_id_bytes)
                    \/ will_flag /\ (DecodeFails(will_topic) \/ will_qos > 2)
                 THEN NoPacket
                 ELSE [client_id |-> Text(decode(client_id_bytes)),
                       clean_session |-> Flag(flags, 2),
                       keep_alive |-> from_bytes(Slice(data, keep_alive_pos, 2)),
                       will_message |->
                           IF will_flag
                           THEN [topic |-> decode(will_topic),
                                 payload |-> Text(decode(will_payload)),
                                 qos |-> will_qos,
                                 retain |-> Flag(flags, 32)]
                           ELSE NoWill]]

\* The loop "Read remaining length" from the byte at pos (counted from 0)
\* on: ok is FALSE when the reader has no byte left (IndexError).
RECURSIVE read_remaining_length(_, _, _, _)
read_remaining_length(bytes, pos, multiplier, remaining_length) ==
    IF pos >= Len(bytes)
    THEN [ok |-> FALSE, remaining_length |-> 0, pos |-> pos]
    ELSE LET byte == bytes[pos + 1]
             length == remaining_length + (byte % 128) * multiplier
         IN IF byte < 128
            THEN [ok |-> TRUE, remaining_length |-> length, pos |-> pos + 1]
            ELSE read_remaining_length(bytes, pos + 1, multiplier * 128, length)

\* A start that does not look at the type of the first packet.
read_connect_unchecked(stream) ==
    LET length == read_remaining_length(stream.bytes, 1, 1, 0)
    IN IF stream.error \/ stream.bytes = <<>> \/ ~length.ok
       THEN [ok |-> FALSE, protocol_name |-> <<>>, protocol_level |-> 0,
             packet |-> NoPacket]
       ELSE decode_connect_packet(
                Slice(stream.bytes, length.pos, length.remaining_length))

\* handle_new_connection from its start to the call of _process_connect:
\* the connect_packet it has decoded, or ok = FALSE when it has closed the
\* writer, at its return of line 112 or in its except clause.
read_connect(stream) ==
    LET length == read_remaining_length(stream.bytes, 1, 1, 0)
    IN IF \/ stream.error
          \/ stream.bytes = <<>>
          \/ stream.bytes[1] \div 16 # CONNECT
          \/ ~length.ok
       THEN [ok |-> FALSE, protocol_name |-> <<>>, protocol_level |-> 0,
             packet |-> NoPacket]
       ELSE decode_connect_packet(
                Slice(stream.bytes, length.pos, length.remaining_length))

\* handle_new_connection is run for a new transport, up to its first await
\* that gives way to the other coroutines, or to its end.  The writer of
\* an attempt that ends before _process_connect is closed and has the
\* position "refused": nothing was written to it.
NewConnection(stream) ==
    LET r == read_connect(stream)
    IN IF r.ok
       THEN Connect(r.packet)
       ELSE /\ Len(writers) < MaxWriters
            /\ writers' = Append(writers,
                              [Ended(NewWriter(NoPacket), FALSE) EXCEPT
                                  !.pc = "refused"])
            /\ will_log' = <<>>
            /\ UNCHANGED <<pubVars, sessVars, carried, routerVars, connections,
                           session_states, will_messages, disconnects,
                           message_handler>>
            /\ Quiet

(***************************************************************************)
(* Initial states.  A PublishHandler is built with next_packet_id = 1 and  *)
(* an empty pending table (Fresh).  The other two are the handler after    *)
(* the allocator has gone round: after PacketIdModulus - 1 publishes, all  *)
(* acknowledged (WrappedToZero), and after PacketIdModulus publishes, all  *)
(* acknowledged except the first, whose retry task is in its first sleep   *)
(* (WrappedOntoPending).  The walk there is one publish_message and one    *)
(* handle_puback per packet id and is not repeated by the model checker.   *)
(***************************************************************************)

Fresh ==
    /\ next_packet_id = 1
    /\ pending_qos_messages = EmptyDict
    /\ qos_messages = <<>>
    /\ retry_tasks = <<>>
    /\ carried = 0

WrappedToZero ==
    /\ next_packet_id = 0
    /\ pending_qos_messages = EmptyDict
    /\ qos_messages = <<>>
    /\ retry_tasks = <<>>
    /\ carried = 0

WrappedOntoPending ==
    /\ next_packet_id = 1
    /\ pending_qos_messages = DictSet(EmptyDict, 1, 1)
    /\ \E qos \in QoSLevel \ {AT_MOST_ONCE} : qos_messages = <<NewQoSMessage(1, qos)>>
    /\ retry_tasks = <<[NewRetryTask(1) EXCEPT !.pc = "sleep", !.qos_message = 1]>>
    /\ carried = 1

NoSessions ==
    /\ sessions = EmptyDict
    /\ session_messages = <<>>
    /\ session_tasks = <<>>

\* SubscriptionHandler.__init__ and MessageQueue.__init__
NoSubscriptions ==
    /\ topic_tree = DictSet(EmptyDict, RootNode, NewTopicNode)
    /\ subscription_sessions = <<>>
    /\ retained_messages = EmptyDict
    /\ last_publish = NoPublish
    /\ return_codes = <<>>

\* The subscriptions after the embedding program has given both handlers
\* a persistent session of client c2 and c2 has subscribed to a/b at QoS 1;
\* c2 is not attached.
Watched ==
    LET r == subscribe_each("c2", <<[topic |-> <<"a", "/", "b">>, qos |-> 1]>>, 1,
                 [tree |-> DictSet(EmptyDict, RootNode, NewTopicNode),
                  sessions |-> OSet(<<>>, "c2", NewSessionState(FALSE)),
                  return_codes |-> <<>>])
    IN /\ sessions = DictSet(EmptyDict, "c2", NewSessionState(FALSE))
       /\ session_messages = <<>>
       /\ session_tasks = <<>>
       /\ topic_tree = r.tree
       /\ subscription_sessions = r.sessions
       /\ retained_messages = EmptyDict
       /\ last_publish = NoPublish
       /\ return_codes = <<>>

\* ConnectionHandler.__init__
NoConnections ==
    /\ connections = EmptyDict
    /\ writers = <<>>
    /\ session_states = EmptyDict
    /\ will_messages = EmptyDict
    /\ disconnects = <<>>
    /\ message_handler = FALSE
    /\ will_log = <<>>

Init ==
    /\ Fresh
    /\ retransmit_callback = FALSE
    /\ NoSessions
    /\ NoSubscriptions
    /\ NoConnections
    /\ raised = "none"
    /\ unmatched_ack = FALSE

NextPublish ==
    \/ \E qos \in QoSLevel : publish_message(qos)
    \/ \E cb \in BOOLEAN : set_retransmit_callback(cb)
    \/ \E t \in DOMAIN retry_tasks : RetryStart(t)
    \/ \E t \in DOMAIN retry_tasks : RetryWake(t)
    \/ \E t \in DOMAIN retry_tasks, ok \in BOOLEAN : RetryCallbackDone(t, ok)
    \/ \E id \in AckIds : Puback(id)
    \/ \E id \in AckIds : Pubrec(id)
    \/ \E id \in AckIds : Pubcomp(id)

NextSession ==
    \/ \E c \in Clients, clean \in HarnessCleanSession : RegisterSession(c, clean)
    \/ \E c \in Clients : RemoveSession(c)
    \/ \E c \in Clients, id \in HarnessIds, qos \in QoSLevel \ {AT_MOST_ONCE} :
          TrackMessage(c, id, qos)
    \/ \E t \in DOMAIN session_tasks : SessionRetryStart(t)
    \/ \E t \in DOMAIN session_tasks : SessionRetryWake(t)
    \/ \E c \in Clients, id \in HarnessIds, a \in AckTypes : Acknowledge(c, id, a)

\* The router without the retained store, which SpecRetained covers.
NextRouter ==
    \/ \E c \in Clients, clean \in HarnessCleanSession : RegisterSession(c, clean)
    \/ \E c \in Clients, clean \in HarnessCleanSession :
          RegisterSubscriberSession(c, clean)
    \/ \E c \in Clients, topic_filters \in SubscribePackets :
          Subscribe(c, topic_filters)
    \/ \E packet \in PublishPackets : ~packet.retain /\ HandlePublish(packet)

ConnectPackets ==
    [client_id : ConnectClients, clean_session : BOOLEAN,
     keep_alive : KeepAliveInputs, will_message : WillInputs \cup {NoWill}]

\* Attachments and disconnections of clients that ask for no keep-alive
\* (keep_alive = 0: no monitor is created).
NextAttachment ==
    \/ AttachMessageHandler
    \/ \E packet \in ConnectPackets : packet.keep_alive = 0 /\ Connect(packet)
    \/ \E w \in DOMAIN writers, ok \in BOOLEAN : OldWriterDrained(w, ok)
    \/ \E w \in DOMAIN writers, ok \in BOOLEAN : ConnackDrained(w, ok)
    \/ \E c \in ConnectClients : UseSession(c)
    \/ \E c \in ConnectClients, unexpected \in BOOLEAN : Disconnect(c, unexpected)
    \/ \E d \in DOMAIN disconnects : DisconnectClosed(d)

NextConnection ==
    \/ NextAttachment
    \/ \E packet \in ConnectPackets : packet.keep_alive > 0 /\ Connect(packet)
    \/ \E w \in DOMAIN writers : MonitorStart(w)
    \/ \E w \in DOMAIN writers : MonitorWake(w)
    \/ \E w \in DOMAIN writers : PacketReceived(w)

Next == NextPublish \/ NextSession

\* The PublishHandler and the sessions of a MessageHandler, from their
\* construction.
Spec == Init /\ [][Next]_vars

\* The PublishHandler alone.
SpecPublish == Init /\ [][NextPublish]_vars

\* The sessions of a MessageHandler alone.
SpecSession == Init /\ [][NextSession]_vars

\* The ConnectionHandler, with the MessageHandler it is given.
InitConnection ==
    /\ Fresh
    /\ retransmit_callback = FALSE
    /\ (NoSessions /\ NoSubscriptions) \/ Watched
    /\ NoConnections
    /\ raised = "none"
    /\ unmatched_ack = FALSE

SpecConnection == InitConnection /\ [][NextConnection]_vars

SpecAttachment == InitConnection /\ [][NextAttachment]_vars

\* Attachments without keep-alive that all end abnormally.
NextAbnormal ==
    \/ AttachMessageHandler
    \/ \E packet \in ConnectPackets : packet.keep_alive = 0 /\ Connect(packet)
    \/ \E w \in DOMAIN writers, ok \in BOOLEAN : OldWriterDrained(w, ok)
    \/ \E w \in DOMAIN writers, ok \in BOOLEAN : ConnackDrained(w, ok)
    \/ \E c \in ConnectClients : Disconnect(c, TRUE)
    \/ \E d \in DOMAIN disconnects : DisconnectClosed(d)

\* The ConnectionHandler when every call of handle_client_disconnect is
\* for an abnormal end.
SpecAbnormal == Init /\ [][NextAbnormal]_vars

\* The bytes of a CONNECT packet: fixed header, protocol name and level,
\* flags, keep-alive 0, client id and the rest of the payload.
ConnectBytes(name, level, flags, client_id, rest) ==
    LET body == <<0, Len(name)>> \o name \o <<level, flags, 0, 0>>
                \o <<0, Len(client_id)>> \o client_id \o rest
    IN <<16, Len(body)>> \o body

\* The first packets of the attachments of the handshake model: CONNECT
\* packets of client c1 for MQTT 3.1.1, clean or not and with a will, for
\* the protocol name MQTX and for the protocol level 5 (one with a will),
\* a CONNECT cut off after the flags, one cut off before them, one with an
\* empty body and one whose client id is no UTF-8; a CONNACK; a packet
\* with the body of a CONNECT and the type of a PUBLISH; a stream that
\* ends at once or after the first byte; and a read that raises.
HandshakeStreams ==
    [error : {FALSE},
     bytes : {ConnectBytes(<<77, 81, 84, 84>>, 4, 2, <<99, 49>>, <<>>),
              ConnectBytes(<<77, 81, 84, 84>>, 4, 0, <<99, 49>>, <<>>),
              ConnectBytes(<<77, 81, 84, 84>>, 4, 46, <<99, 49>>,
                           <<0, 3, 97, 47, 98, 0, 1, 119>>),
              ConnectBytes(<<77, 81, 84, 88>>, 4, 2, <<99, 49>>, <<>>),
              ConnectBytes(<<77, 81, 84, 84>>, 5, 2, <<99, 49>>, <<>>),
              ConnectBytes(<<77, 81, 84, 84>>, 5, 46, <<99, 49>>,
                           <<0, 3, 97, 47, 98, 0, 1, 119>>),
              <<16, 8, 0, 4, 77, 81, 84, 84, 4, 2>>,
              <<16, 6, 0, 4, 77, 81, 84, 84>>,
              <<16, 0>>,
              ConnectBytes(<<77, 81, 84, 84>>, 4, 2, <<255>>, <<>>),
              <<32, 2, 0, 0>>,
              <<48>> \o Tail(ConnectBytes(<<77, 81, 84, 84>>, 4, 2, <<99, 49>>, <<>>)),
              <<>>,
              <<16>>}]
    \cup {[error |-> TRUE, bytes |-> <<>>]}

NextHandshake ==
    \/ AttachMessageHandler
    \/ \E stream \in HandshakeStreams : NewConnection(stream)
    \/ \E w \in DOMAIN writers, ok \in BOOLEAN : OldWriterDrained(w, ok)
    \/ \E w \in DOMAIN writers, ok \in BOOLEAN : ConnackDrained(w, ok)
    \/ \E c \in ConnectClients, unexpected \in BOOLEAN : Disconnect(c, unexpected)
    \/ \E d \in DOMAIN disconnects : DisconnectClosed(d)

\* The ConnectionHandler and the bytes its attachments begin with.
SpecHandshake == Init /\ [][NextHandshake]_vars

\* The retry tasks to their end: the PublishHandler, and the sessions of a
\* MessageHandler with one client.
ExpiryClients == {"c1"}

NextExpiry ==
    \/ \E qos \in QoSLevel : publish_message(qos)
    \/ \E cb \in BOOLEAN : set_retransmit_callback(cb)
    \/ \E t \in DOMAIN retry_tasks : RetryStart(t)
    \/ \E t \in DOMAIN retry_tasks : RetryWake(t)
    \/ \E t \in DOMAIN retry_tasks, ok \in BOOLEAN : RetryCallbackDone(t, ok)
    \/ \E id \in AckIds : Puback(id)
    \/ \E id \in AckIds : Pubrec(id)
    \/ \E id \in AckIds : Pubcomp(id)
    \/ \E c \in ExpiryClients, clean \in HarnessCleanSession : RegisterSession(c, clean)
    \/ \E c \in ExpiryClients : RemoveSession(c)
    \/ \E c \in ExpiryClients, id \in HarnessIds, qos \in QoSLevel \ {AT_MOST_ONCE} :
          TrackMessage(c, id, qos)
    \/ \E t \in DOMAIN session_tasks : SessionRetryStart(t)
    \/ \E t \in DOMAIN session_tasks : SessionRetryWake(t)
    \/ \E c \in ExpiryClients, id \in HarnessIds, a \in AckTypes : Acknowledge(c, id, a)

\* The event loop runs a task that asyncio.create_task has made, ends an
\* asyncio.sleep whose interval has passed, and resumes a task when the
\* retransmit callback it awaits has returned or raised.
TasksRun ==
    /\ WF_vars(\E t \in DOMAIN retry_tasks : RetryStart(t))
    /\ WF_vars(\E t \in DOMAIN retry_tasks : RetryWake(t))
    /\ WF_vars(\E t \in DOMAIN retry_tasks, ok \in BOOLEAN : RetryCallbackDone(t, ok))
    /\ WF_vars(\E t \in DOMAIN session_tasks : SessionRetryStart(t))
    /\ WF_vars(\E t \in DOMAIN session_tasks : SessionRetryWake(t))

SpecExpiry == Init /\ [][NextExpiry]_vars /\ TasksRun

\* The router: the sessions the two handlers are given, the subscription
\* index and _handle_publish.
SpecRouter == Init /\ [][NextRouter]_vars

InitWrapped ==
    /\ WrappedToZero \/ WrappedOntoPending
    /\ retransmit_callback = FALSE
    /\ NoSessions
    /\ NoSubscriptions
    /\ NoConnections
    /\ raised = "none"
    /\ unmatched_ack = FALSE

\* The PublishHandler once its packet id counter has gone round.
SpecWrapped == InitWrapped /\ [][NextPublish]_vars

\* The retained store: PUBLISH packets on two topics, with an empty or one
\* of two other payloads, and a client that subscribes to a/#.
RetainTopics == {<<"a", "/", "b">>, <<"a">>}

RetainPayloads == {"", "m", "n"}

RetainPackets ==
    [topic : RetainTopics, payload : RetainPayloads, qos : QoSLevel,
     retain : BOOLEAN, packet_id : InboundIds, dup : {FALSE}]

RetainSubscribers == {"c1"}

RetainFilters ==
    [topic : {<<"a", "/", "#">>}, qos : {1}]

NextRetained ==
    \/ \E c \in RetainSubscribers, clean \in HarnessCleanSession :
          RegisterSession(c, clean)
    \/ \E c \in RetainSubscribers, clean \in HarnessCleanSession :
          RegisterSubscriberSession(c, clean)
    \/ \E c \in RetainSubscribers, f \in RetainFilters : Subscribe(c, <<f>>)
    \/ \E packet \in RetainPackets : HandlePublish(packet)

\* The MessageHandler with its retained store and one subscribing client.
SpecRetained == Init /\ [][NextRetained]_vars

\* SUBSCRIBE packets for the validation of topic filters: one client, the
\* filters a, a/b, +, #, a/+, a/#, a/+/b, +/# and the malformed "", /a,
\* a/, a//b, #/a, a/#/b, a#, a+, a/b#, a/+b, +a and ## at QoS 1, the
\* filter a at the QoS 3 that does not exist, and packets of two entries.
ValidationClients == {"c1"}

ValidationFilters ==
    {<<"a">>, <<"a", "/", "b">>, <<"+">>, <<"#">>, <<"a", "/", "+">>,
     <<"a", "/", "#">>, <<"a", "/", "+", "/", "b">>, <<"+", "/", "#">>,
     <<>>, <<"/", "a">>, <<"a", "/">>, <<"a", "/", "/", "b">>,
     <<"#", "/", "a">>, <<"a", "/", "#", "/", "b">>, <<"a", "#">>, <<"a", "+">>,
     <<"a", "/", "b", "#">>, <<"a", "/", "+", "b">>, <<"+", "a">>, <<"#", "#">>}

PairEntries ==
    {[topic |-> <<"a", "/", "b">>, qos |-> 1], [topic |-> <<"a", "/", "#">>, qos |-> 2],
     [topic |-> <<"a", "+">>, qos |-> 1], [topic |-> <<"a", "/", "b">>, qos |-> 3],
     [topic |-> <<>>, qos |-> 0]}

ValidationPackets ==
    {<<[topic |-> f, qos |-> 1]>> : f \in ValidationFilters}
    \cup {<<[topic |-> <<"a">>, qos |-> 3]>>}
    \cup {<<e1, e2>> : e1 \in PairEntries, e2 \in PairEntries}

NextSubscribe ==
    \/ \E c \in ValidationClients, clean \in HarnessCleanSession :
          RegisterSubscriberSession(c, clean)
    \/ \E c \in ValidationClients, packet \in ValidationPackets :
          Subscribe(c, packet)

\* The SubscriptionHandler and the SUBSCRIBE packets of one client.
SpecSubscribe == Init /\ [][NextSubscribe]_vars

(***************************************************************************)
(* Properties                                                              *)
(***************************************************************************)

EXACTLY_ONCE == 2
AT_LEAST_ONCE == 1

\* The position of a state string in the QoS 2 handshake.  RETRANSMITTED
\* and RETRANSMISSION_FAILED are written by the PUBLISH retry and record no
\* PUBREC: they stand with PENDING.  EXPIRED is final, like COMPLETED.
Phase(state) ==
    CASE state = "PENDING" -> 0
      [] state = "RETRANSMITTED" -> 0
      [] state = "RETRANSMISSION_FAILED" -> 0
      [] state = "PUBREC_RECEIVED" -> 1
      [] state = "PUBREL_RECEIVED" -> 2
      [] state = "COMPLETED" -> 3
      [] state = "EXPIRED" -> 3

\* Object m of heap msgs is the value of some key of pending table p.
InTable(p, m) == \E id \in DOMAIN p : p[id] = m

\* Object m of the session heap is the value of some key of some session's
\* pending_messages.
InSomeSession(sess, m) ==
    \E c \in DOMAIN sess : InTable(sess[c].pending_messages, m)

\* C1: the state of an outbound QoS 2 message, in PublishHandler's table or
\* in a session's, never moves back in the handshake PENDING ->
\* PUBREC received -> PUBREL -> COMPLETED, whatever acknowledgment arrives
\* and whatever retry timer fires.
C1_Qos2StateOnlyForward ==
    [][ /\ \A m \in DOMAIN qos_messages :
              qos_messages[m].qos_level = EXACTLY_ONCE =>
                  Phase(qos_messages'[m].state) >= Phase(qos_messages[m].state)
        /\ \A m \in DOMAIN session_messages :
              session_messages[m].qos_level = EXACTLY_ONCE =>
                  Phase(session_messages'[m].state) >= Phase(session_messages[m].state)
      ]_vars

\* C2: no step takes an outbound QoS 2 message of PublishHandler from PENDING
\* to COMPLETED or out of the pending table as completed: a PUBCOMP or a
\* PUBACK that arrives before any PUBREC is rejected.
C2_NoCompletionWhilePending ==
    [][ \A m \in DOMAIN qos_messages :
            (/\ qos_messages[m].qos_level = EXACTLY_ONCE
             /\ qos_messages[m].state = "PENDING")
            => /\ qos_messages'[m].state # "COMPLETED"
               /\ ~qos_messages'[m].ack_received
      ]_vars

\* The retry task of object m of PublishHandler's heap makes no retransmission
\* in this step: no task that is bound to m, or was created with m, counts
\* another retry, sets DUP or calls the retransmit callback.
NoRetransmission(m) ==
    /\ qos_messages'[m].retry_count = qos_messages[m].retry_count
    /\ \A t \in DOMAIN retry_tasks :
          (t = m \/ retry_tasks[t].qos_message = m) =>
              /\ retry_tasks'[t].retry_count = retry_tasks[t].retry_count
              /\ retry_tasks'[t].dup = retry_tasks[t].dup
              /\ retry_tasks'[t].pc = "callback" => retry_tasks[t].pc = "callback"

\* C4: the step that acknowledges a pending QoS 1 message of PublishHandler
\* marks it COMPLETED and takes it out of the pending table, and from then
\* on it stays out and its retry task makes no retransmission, wherever the
\* task was when the PUBACK arrived.
C4_PubackEndsRetries ==
    [][ \A m \in DOMAIN qos_messages :
            qos_messages[m].qos_level = AT_LEAST_ONCE =>
                /\ (~qos_messages[m].ack_received /\ qos_messages'[m].ack_received)
                   => /\ InTable(pending_qos_messages, m)
                      /\ qos_messages'[m].state = "COMPLETED"
                      /\ ~InTable(pending_qos_messages', m)
                /\ qos_messages[m].ack_received
                   => /\ qos_messages'[m].ack_received
                      /\ ~InTable(pending_qos_messages', m)
                      /\ NoRetransmission(m)
      ]_vars

\* C4 witness: a QoS 1 message was acknowledged after its first and before
\* its last retransmission, its task was asleep then and has since woken up
\* and finished.
C4_Witness ==
    \E m \in DOMAIN qos_messages :
        /\ qos_messages[m].qos_level = AT_LEAST_ONCE
        /\ qos_messages[m].ack_received
        /\ qos_messages[m].retry_count \in 1 .. (max_retries - 1)
        /\ retry_tasks[m].pc = "done"
        /\ retry_tasks[m].qos_message = m

\* C5: a message whose retry task has finished without an acknowledgment
\* was retransmitted max_retries times with DUP set, is marked EXPIRED and
\* is in no pending table.
C5_ExpiredAfterMaxRetries ==
    /\ \A m \in DOMAIN qos_messages :
          (retry_tasks[m].pc = "done" /\ ~qos_messages[m].ack_received) =>
              /\ qos_messages[m].retry_count = max_retries
              /\ retry_tasks[m].dup
              /\ qos_messages[m].state = "EXPIRED"
              /\ ~InTable(pending_qos_messages, m)
    /\ \A m \in DOMAIN session_messages :
          (/\ session_tasks[m].pc = "done"
           /\ ~session_messages[m].ack_received
           /\ session_tasks[m].client_id \in DOMAIN sessions) =>
              /\ session_messages[m].retry_count = max_retries
              /\ session_messages[m].state = "EXPIRED"
              /\ ~InSomeSession(sessions, m)

\* C6: an acknowledgment that names no pending message when it arrives (its
\* packet id is not in the table, or its client has no session) raises
\* nothing and changes no pending table, no message and no retry task.
C6_UnmatchedAckIgnored ==
    [][ unmatched_ack' =>
            /\ raised' = "none"
            /\ UNCHANGED <<pubVars, sessVars>>
      ]_vars

\* C6 witness: an acknowledgment has been ignored that named no pending
\* message while a message of PublishHandler was completed (its own
\* acknowledgment had come before).
C6_Witness ==
    /\ unmatched_ack
    /\ \E m \in DOMAIN qos_messages : qos_messages[m].state = "COMPLETED"

\* A message of PublishHandler is in flight: not acknowledged, not expired.
InFlight(m) ==
    /\ ~qos_messages[m].ack_received
    /\ qos_messages[m].state # "EXPIRED"

\* C7: in-flight messages of PublishHandler have pairwise distinct packet
\* ids: the allocator gives no id that an unacknowledged message still has.
C7_InFlightIdsDistinct ==
    \A m1, m2 \in DOMAIN qos_messages :
        (m1 # m2 /\ InFlight(m1) /\ InFlight(m2)) =>
            qos_messages[m1].message_id # qos_messages[m2].message_id

\* C8: every packet id the allocator has given is in 1 .. 65535.
C8_PacketIdNeverZero ==
    \A m \in DOMAIN qos_messages :
        qos_messages[m].message_id \in 1 .. (PacketIdModulus - 1)

\* The pending_messages keys client c has after the step and had not before.
NewEntries(c) ==
    DOMAIN sessions'[c].pending_messages \ DOMAIN sessions[c].pending_messages

\* The i-th subscriber the publish of this step has matched has a session
\* in the MessageHandler.
MatchedWithSession(i) == last_publish'.subscribers[i].key \in DOMAIN sessions

\* min(publish QoS, subscription QoS) for that subscriber.
EffectiveQos(i) == Min(last_publish'.qos, last_publish'.subscribers[i].value)

\* C3: a QoS 2 PUBLISH with DUP set that comes right after a QoS 2 PUBLISH
\* with the same packet id (no PUBREL between them) is not routed again: it
\* allocates no packet id, adds no delivery to any session and raises
\* nothing.
C3_DuplicateQos2NotRoutedAgain ==
    [][ (/\ last_publish.handled
         /\ last_publish.qos = EXACTLY_ONCE
         /\ last_publish'.handled
         /\ last_publish'.qos = EXACTLY_ONCE
         /\ last_publish'.packet_id = last_publish.packet_id
         /\ last_publish'.dup)
        => /\ next_packet_id' = next_packet_id
           /\ UNCHANGED sessVars
           /\ raised' = "none"
      ]_vars

\* C9: after _handle_publish, every matched subscriber that has a session
\* and whose min(publish QoS, subscription QoS) is 1 or 2 has a new tracked
\* delivery whose qos_level is that minimum.
C9_TrackedQosIsMinimum ==
    [][ last_publish'.handled =>
            \A i \in DOMAIN last_publish'.subscribers :
                (MatchedWithSession(i) /\ EffectiveQos(i) > AT_MOST_ONCE) =>
                    \E id \in NewEntries(last_publish'.subscribers[i].key) :
                        LET c == last_publish'.subscribers[i].key
                            m == sessions'[c].pending_messages[id]
                        IN session_messages'[m].qos_level = EffectiveQos(i)
      ]_vars

\* C10: one call of _handle_publish gives every matched subscriber that has
\* a session exactly one new pending_messages entry when min(publish QoS,
\* subscription QoS) is 1 or 2 and none when it is 0, however many of the
\* client's filters match.
C10_OneEntryPerMatchedSubscriber ==
    [][ last_publish'.handled =>
            \A i \in DOMAIN last_publish'.subscribers :
                MatchedWithSession(i) =>
                    Cardinality(NewEntries(last_publish'.subscribers[i].key)) =
                        (IF EffectiveQos(i) > AT_MOST_ONCE THEN 1 ELSE 0)
      ]_vars


(***************************************************************************)
(* Attachment and disconnection (connection.py)                            *)
(***************************************************************************)

\* The step in which the handle_new_connection of writer w runs
\* _process_connect for the CONNECT packet it read.
ProcessesConnect(w, packet) ==
    \/ /\ w = Len(writers) + 1
       /\ packet.client_id \notin DOMAIN connections
       /\ Connect(packet)
    \/ /\ w \in DOMAIN writers
       /\ writers[w].packet = packet
       /\ OldWriterDrained(w, TRUE)

\* C11: when _process_connect has run for a CONNECT packet with
\* clean_session = true, the session stored for the client id is a clean
\* session with no subscriptions and no pending messages, and the
\* session_present flag of the CONNACK is false, whatever session the
\* client id had before.
C11_CleanConnectStartsEmptySession ==
    [][\A packet \in ConnectPackets, w \in 1..MaxWriters :
          ProcessesConnect(w, packet) /\ packet.clean_session
          => /\ session_states'[packet.client_id] = NewSessionState(TRUE)
             /\ ~writers'[w].session_present]_vars

\* A second attachment of c1 has taken over from the first and waits for
\* its CONNACK to drain, with session_present false and an empty clean
\* session stored.
C11_Witness ==
    /\ Len(writers) = 2
    /\ writers[1].closed
    /\ writers[2].pc = "connack"
    /\ ~writers[2].session_present
    /\ connections = DictSet(EmptyDict, "c1", 2)
    /\ session_states["c1"] = NewSessionState(TRUE)

\* A session created with clean_session = false is stored for the client.
PersistentSession(client_id) ==
    /\ client_id \in DOMAIN session_states
    /\ ~session_states[client_id].clean_session

\* C12: when _process_connect has run for a CONNECT packet with
\* clean_session = false, session_present is true exactly if a persistent
\* session was stored for the client id, and then the stored session is
\* the one that was there; otherwise the stored session is a new, empty
\* persistent session.
C12_ResumeOnlyPersistentSession ==
    [][\A packet \in ConnectPackets, w \in 1..MaxWriters :
          ProcessesConnect(w, packet) /\ ~packet.clean_session
          => LET client_id == packet.client_id
             IN /\ writers'[w].session_present <=> PersistentSession(client_id)
                /\ session_states'[client_id] =
                       IF PersistentSession(client_id)
                       THEN session_states[client_id]
                       ELSE NewSessionState(FALSE)]_vars

\* Writer w is a live attachment: _process_connect has installed it and
\* nothing has closed it.
LiveAttachment(w) ==
    /\ writers[w].pc \in {"connack", "established"}
    /\ ~writers[w].closed

\* Every live attachment of a client id is the writer connections holds
\* for it.
LiveAttachmentsRegistered ==
    \A w \in DOMAIN writers :
        LiveAttachment(w)
        => /\ writers[w].client_id \in DOMAIN connections
           /\ connections[writers[w].client_id] = w

\* C13: the step that ends the wait for the old writer of a client id
\* leaves the old writer closed and the new writer in connections, and
\* after every step a live attachment of a client id is the one
\* connections holds for it (so there is at most one).
C13_NewAttachmentTakesOver ==
    [][/\ \A w \in DOMAIN writers, ok \in BOOLEAN :
             OldWriterDrained(w, ok)
             => /\ writers'[writers[w].old_writer].closed
                /\ connections'[writers[w].client_id] = w
       /\ LiveAttachmentsRegistered']_vars

\* The step in which handle_client_disconnect(client_id, unexpected=True)
\* is called, by the embedding program or by a keep-alive monitor.
AbnormalDisconnect(client_id) ==
    \/ Disconnect(client_id, TRUE)
    \/ \E w \in DOMAIN writers :
          /\ writers[w].client_id = client_id
          /\ client_id \in DOMAIN connections
          /\ MonitorWake(w)

\* C14: when handle_client_disconnect is called with unexpected = True for
\* a client id with a registered will, on a ConnectionHandler that has its
\* MessageHandler, the call hands _handle_publish one packet, with the
\* topic, payload, QoS and retain flag of the registered will, goes on to
\* close the writer registered for the client id, and leaves no will
\* registered for it.
C14_WillPublishedOnceThenCleanup ==
    [][\A client_id \in ConnectClients :
          /\ AbnormalDisconnect(client_id)
          /\ client_id \in DOMAIN will_messages
          /\ message_handler
          => /\ will_log' = <<[client_id |-> client_id,
                               packet |-> WillPacket(will_messages[client_id])]>>
             /\ client_id \notin DOMAIN will_messages'
             /\ client_id \in DOMAIN connections
                => writers'[connections[client_id]].closed]_vars

\* C15: a call of handle_client_disconnect with unexpected = False hands
\* no packet to _handle_publish, closes the writer registered for the
\* client id and waits for it, and when that wait ends the client id is
\* not in connections.
C15_CleanDisconnectSkipsWill ==
    [][/\ \A client_id \in ConnectClients :
             Disconnect(client_id, FALSE)
             => /\ will_log' = <<>>
                /\ last_publish' = NoPublish
                /\ UNCHANGED <<retained_messages, sessVars>>
                /\ client_id \in DOMAIN connections
                   => /\ writers'[connections[client_id]].closed
                      /\ Len(disconnects') = Len(disconnects) + 1
       /\ \A d \in DOMAIN disconnects :
             ~disconnects[d].unexpected /\ DisconnectClosed(d)
             => disconnects[d].client_id \notin DOMAIN connections']_vars

\* The attachment of c1 has been ended by a clean disconnect: its writer
\* is closed and no longer registered, and the will is still registered,
\* on a ConnectionHandler that has its MessageHandler.
C15_Witness ==
    /\ message_handler
    /\ Len(writers) = 1
    /\ writers[1].pc = "established"
    /\ writers[1].closed
    /\ "c1" \notin DOMAIN connections
    /\ "c1" \in DOMAIN will_messages
    /\ disconnects = <<>>
    /\ raised = "none"

\* The step in which a call of handle_client_disconnect for the client id
\* returns: at once if the client id has no writer registered, at the end
\* of its wait_closed if it has.
DisconnectCompletes(client_id) ==
    \/ /\ client_id \notin DOMAIN connections
       /\ \E unexpected \in BOOLEAN : Disconnect(client_id, unexpected)
       /\ raised' = "none"
    \/ /\ client_id \in DOMAIN connections
       /\ \E d \in DOMAIN disconnects :
             disconnects[d].client_id = client_id /\ DisconnectClosed(d)

\* C16: when a call of handle_client_disconnect returns, the client id is
\* not in connections; a clean session of the client id is no longer
\* stored, and a persistent session is stored as it was, with its
\* subscriptions and pending messages.
C16_DisconnectKeepsPersistentSession ==
    [][\A client_id \in ConnectClients :
          DisconnectCompletes(client_id)
          => /\ client_id \notin DOMAIN connections'
             /\ IF PersistentSession(client_id)
                THEN /\ client_id \in DOMAIN session_states'
                     /\ session_states'[client_id] = session_states[client_id]
                ELSE client_id \notin DOMAIN session_states']_vars

\* A disconnect of c1 has returned and has left its persistent session,
\* with a subscription and a pending message, in the store.
C16_Witness ==
    /\ Len(writers) = 1
    /\ writers[1].pc = "established"
    /\ writers[1].closed
    /\ disconnects = <<>>
    /\ "c1" \notin DOMAIN connections
    /\ "c1" \in DOMAIN session_states
    /\ session_states["c1"] = UsedSession(NewSessionState(FALSE))

\* C17: when the sleep of the keep-alive monitor of an attachment ends,
\* the attachment is still the registered one and no packet has come from
\* the client, the monitor (on a ConnectionHandler that has its
\* MessageHandler) hands the registered will to _handle_publish, closes
\* the writer and waits for it; when the wait of a monitor's disconnect
\* ends, the client id is not in connections.
C17_SilentClientTimedOut ==
    [][/\ \A w \in DOMAIN writers :
             /\ MonitorWake(w)
             /\ writers[w].client_id \in DOMAIN connections
             /\ connections[writers[w].client_id] = w
             /\ ~writers[w].heard
             /\ message_handler
             => LET client_id == writers[w].client_id
                IN /\ writers'[w].closed
                   /\ \E d \in DOMAIN disconnects' :
                         /\ disconnects'[d].origin = w
                         /\ disconnects'[d].writer = w
                   /\ client_id \in DOMAIN will_messages
                      => /\ Len(will_log') = 1
                         /\ will_log'[1].packet = WillPacket(will_messages[client_id])
       /\ \A d \in DOMAIN disconnects :
             disconnects[d].origin # NoWriter /\ DisconnectClosed(d)
             => disconnects[d].client_id \notin DOMAIN connections']_vars

\* C18: when the sleep of the keep-alive monitor of an attachment ends and
\* a packet has come from the client during the sleep, the monitor starts
\* no disconnect: it closes no writer, hands no will to _handle_publish
\* and leaves connections and the registered wills as they are.
C18_PacketKeepsClientAlive ==
    [][\A w \in DOMAIN writers :
          MonitorWake(w) /\ writers[w].heard
          => /\ \A v \in DOMAIN writers : writers'[v].closed = writers[v].closed
             /\ will_log' = <<>>
             /\ UNCHANGED <<disconnects, connections, will_messages>>]_vars

(***************************************************************************)
(* Queueing for sessions (message_handler.py)                              *)
(***************************************************************************)

\* Client c has a persistent session in the MessageHandler and no writer
\* registered in the ConnectionHandler.
OfflinePersistent(c) ==
    /\ c \in DOMAIN sessions
    /\ ~sessions[c].clean_session
    /\ c \notin DOMAIN connections

\* C19: when _handle_publish handles a message whose min(publish QoS,
\* subscription QoS) for a matched subscriber is 1 or 2, and the subscriber
\* has a persistent session and is not attached, the step adds an entry to
\* the pending_messages of that session; and no step takes an entry out of
\* the pending_messages of a persistent session whose client is not
\* attached.
C19_OfflineMessagesQueued ==
    [][/\ last_publish'.handled
          => \A i \in DOMAIN last_publish'.subscribers :
                LET c == last_publish'.subscribers[i].key
                IN OfflinePersistent(c) /\ EffectiveQos(i) > AT_MOST_ONCE
                   => /\ c \in DOMAIN sessions'
                      /\ NewEntries(c) # {}
       /\ \A c \in Clients :
             OfflinePersistent(c)
             => /\ c \in DOMAIN sessions'
                /\ DOMAIN sessions[c].pending_messages
                       \subseteq DOMAIN sessions'[c].pending_messages]_vars

\* The objects of the pending_messages of a session, numbered in the order
\* of their creation.
PendingObjects(session) ==
    {session.pending_messages[id] : id \in DOMAIN session.pending_messages}

\* C20: when _handle_publish handles a message that is to be tracked for a
\* matched subscriber (min QoS 1 or 2, the subscriber has a session), the
\* deliveries the session held stay in its pending_messages and the
\* delivery of this message is entered as a new object, created after all
\* of them: a message handled earlier is entered earlier and stays before
\* every later one.
C20_PendingInHandlingOrder ==
    [][last_publish'.handled
       => \A i \in DOMAIN last_publish'.subscribers :
             LET c == last_publish'.subscribers[i].key
             IN MatchedWithSession(i) /\ EffectiveQos(i) > AT_MOST_ONCE
                => /\ c \in DOMAIN sessions'
                   /\ PendingObjects(sessions[c]) \subseteq PendingObjects(sessions'[c])
                   /\ \E m \in PendingObjects(sessions'[c]) \ PendingObjects(sessions[c]) :
                         \A n \in PendingObjects(sessions[c]) : n < m]_vars

(***************************************************************************)
(* The retained store (message_handler.py)                                 *)
(***************************************************************************)

\* C21: after _handle_publish has handled a packet with retain set and an
\* empty payload, the retained store has no message for the packet's
\* topic.
C21_EmptyRetainedPayloadDeletes ==
    [][\A packet \in RetainPackets :
          HandlePublish(packet) /\ packet.retain /\ packet.payload = ""
          => packet.topic \notin DOMAIN retained_messages']_vars

\* The retained messages whose topic the filter matches once the filter
\* is in the tree, by _match_topic.
RetainedFor(tree, filter) ==
    {topic \in DOMAIN retained_messages :
        match_topic(tree, split(filter, "/"), split(topic, "/"), RootNode) # {}}

\* C22: when handle_subscribe has admitted a filter of a client that has a
\* session in both handlers, and the retained store holds a message whose
\* topic the filter matches and whose min(retained QoS, granted QoS) is 1
\* or 2, the step enters a delivery into the pending_messages of the
\* client's session.
C22_RetainedDeliveredOnSubscribe ==
    [][\A c \in RetainSubscribers, f \in RetainFilters :
          /\ Subscribe(c, <<f>>)
          /\ c \in DOMAIN sessions
          /\ OHas(subscription_sessions, c)
          /\ \E topic \in RetainedFor(topic_tree', f.topic) :
                Min(retained_messages[topic].qos, f.qos) > AT_MOST_ONCE
          => \/ NewEntries(c) # {}
             \/ DOMAIN OGet(subscription_sessions', c).pending_messages
                    # DOMAIN OGet(subscription_sessions, c).pending_messages]_vars

\* C23: after _handle_publish has handled a packet with retain set and a
\* payload that is not empty, at any QoS, the retained store holds for the
\* packet's topic the payload and the QoS of that packet, and for every
\* other topic what it held; a packet without retain leaves the store as
\* it is.
C23_OneRetainedMessagePerTopic ==
    [][\A packet \in RetainPackets :
          HandlePublish(packet)
          => IF packet.retain
             THEN packet.payload # ""
                  => /\ DOMAIN retained_messages' =
                            DOMAIN retained_messages \cup {packet.topic}
                     /\ retained_messages'[packet.topic].payload = packet.payload
                     /\ retained_messages'[packet.topic].qos = packet.qos
                     /\ \A topic \in DOMAIN retained_messages \ {packet.topic} :
                           retained_messages'[topic] = retained_messages[topic]
             ELSE UNCHANGED retained_messages]_vars

\* A publish at QoS 0 has just been handled; the store holds the message
\* of a retained QoS 0 publish for topic a and another message for a/b.
C23_Witness ==
    /\ last_publish.handled
    /\ last_publish.qos = AT_MOST_ONCE
    /\ DOMAIN retained_messages = RetainTopics
    /\ retained_messages[<<"a">>].payload = "n"
    /\ retained_messages[<<"a">>].qos = AT_MOST_ONCE
    /\ retained_messages[<<"a", "/", "b">>].payload = "m"
    /\ retained_messages[<<"a", "/", "b">>].qos = EXACTLY_ONCE

\* Matching: two clients with the filters a, a/b, a/+, a/# and a/b/# at
\* QoS 1 or 2, and PUBLISH packets of QoS 0 on the topics a, a/b, a/b/c
\* and b.
MatchClients == {"c1", "c2"}

MatchFilters ==
    [topic : {<<"a">>, <<"a", "/", "b">>, <<"a", "/", "+">>, <<"a", "/", "#">>,
              <<"a", "/", "b", "/", "#">>},
     qos : {1, 2}]

MatchTopics ==
    {<<"a">>, <<"a", "/", "b">>, <<"a", "/", "b", "/", "c">>, <<"b">>}

MatchPackets ==
    [topic : MatchTopics, payload : Payloads, qos : {0}, retain : {FALSE},
     packet_id : InboundIds, dup : {FALSE}]

NextMatch ==
    \/ \E c \in MatchClients : RegisterSubscriberSession(c, TRUE)
    \/ \E c \in MatchClients : RemoveSubscriberSession(c)
    \/ \E c \in MatchClients, f \in MatchFilters : Subscribe(c, <<f>>)
    \/ \E packet \in MatchPackets : HandlePublish(packet)

\* The SubscriptionHandler with two clients, and publishes matched against
\* their subscriptions.
SpecMatch == Init /\ [][NextMatch]_vars

\* Subscribing again: one client with the filters a and a/#, which share a
\* node of the tree, at every QoS, and PUBLISH packets of QoS 0 on a, a/b
\* and b.
ResubscribeClients == {"c1"}

ResubscribeFilters ==
    [topic : {<<"a">>, <<"a", "/", "#">>}, qos : {0, 1, 2}]

ResubscribeTopics == {<<"a">>, <<"a", "/", "b">>, <<"b">>}

ResubscribePackets ==
    [topic : ResubscribeTopics, payload : Payloads, qos : {0}, retain : {FALSE},
     packet_id : InboundIds, dup : {FALSE}]

NextResubscribe ==
    \/ \E c \in ResubscribeClients : RegisterSubscriberSession(c, TRUE)
    \/ \E c \in ResubscribeClients, f \in ResubscribeFilters : Subscribe(c, <<f>>)
    \/ \E packet \in ResubscribePackets : HandlePublish(packet)

\* The SubscriptionHandler with one client that subscribes again and again.
SpecResubscribe == Init /\ [][NextResubscribe]_vars

(***************************************************************************)
(* Topic filters and matching (subscribe.py)                               *)
(***************************************************************************)

\* The filter has an empty segment: it begins or ends with '/', or has two
\* '/' in a row.
HasEmptySegment(f) ==
    \/ f[1] = "/"
    \/ f[Len(f)] = "/"
    \/ \E i \in 1 .. (Len(f) - 1) : f[i] = "/" /\ f[i + 1] = "/"

\* The character at place i is a whole segment of the filter.
WholeSegment(f, i) ==
    /\ i = 1 \/ f[i - 1] = "/"
    /\ i = Len(f) \/ f[i + 1] = "/"

\* The filters the rules of the claim reject.
RejectedFilter(f) ==
    \/ f = <<>>
    \/ HasEmptySegment(f)
    \/ \E i \in DOMAIN f : f[i] = "#" /\ ~(WholeSegment(f, i) /\ i = Len(f))
    \/ \E i \in DOMAIN f : f[i] \in {"+", "#"} /\ ~WholeSegment(f, i)

\* C27: handle_subscribe answers a topic filter requested at QoS 1 with
\* 0x80 exactly when the filter is empty, has an empty segment, has '#'
\* anywhere but as its whole last segment, or has '+' or '#' next to other
\* characters in a segment; every other filter is granted QoS 1.
C27_FilterRejectedExactlyWhenMalformed ==
    [][\A c \in ValidationClients, f \in ValidationFilters :
          Subscribe(c, <<[topic |-> f, qos |-> 1]>>)
          => return_codes' = <<IF RejectedFilter(f) THEN SubackFailure ELSE 1>>]_vars

\* A malformed filter has just been refused, after filters of the client
\* were admitted.
C27_Witness ==
    /\ return_codes = <<SubackFailure>>
    /\ TreeEntries(topic_tree) > 0

\* An entry of a SUBSCRIBE packet that is to be admitted.
AdmissibleEntry(entry) ==
    entry.qos \in {0, 1, 2} /\ ~RejectedFilter(entry.topic)

\* C28: handle_subscribe returns one code per entry, in the order of the
\* request: 0x80 for an entry with an invalid filter or QoS, the requested
\* QoS for every other entry.  The topic tree and the session subscriptions
\* change as if the packet held its admissible entries only.
C28_OneReturnCodePerFilter ==
    [][\A c \in ValidationClients, packet \in ValidationPackets :
          Subscribe(c, packet)
          => /\ Len(return_codes') = Len(packet)
             /\ \A i \in DOMAIN packet :
                    return_codes'[i] = IF AdmissibleEntry(packet[i])
                                       THEN packet[i].qos
                                       ELSE SubackFailure
             /\ LET admitted == handle_subscribe(c, SelectSeq(packet, AdmissibleEntry))
                IN /\ topic_tree' = admitted.tree
                   /\ subscription_sessions' = admitted.sessions]_vars

\* A packet whose first entry was refused and whose second was admitted
\* into the tree and the session.
C28_Witness ==
    /\ return_codes = <<SubackFailure, 2>>
    /\ TreeEntries(topic_tree) > 0
    /\ OHas(subscription_sessions, "c1")
    /\ OHas(OGet(subscription_sessions, "c1").subscriptions, <<"a", "/", "#">>)

\* The filters of a client's session that _match_topic matches with a topic.
MatchingFilters(tree, sess, client_id, topic) ==
    {f \in {OGet(sess, client_id).subscriptions[i].key :
                 i \in DOMAIN OGet(sess, client_id).subscriptions} :
        match_topic(tree, split(f, "/"), split(topic, "/"), RootNode) # {}}

HeldFilters(sess, client_id) ==
    IF OHas(sess, client_id)
    THEN {OGet(sess, client_id).subscriptions[i].key :
              i \in DOMAIN OGet(sess, client_id).subscriptions}
    ELSE {}

\* A filter without '#', as segments, matches a topic of as many segments
\* when each of its segments is '+' or the segment of the topic.
PlainMatch(pattern, topic) ==
    /\ Len(pattern) = Len(topic)
    /\ \A i \in DOMAIN pattern : pattern[i] = <<"+">> \/ pattern[i] = topic[i]

\* A filter that ends in '#' matches a topic when the segments before '#'
\* match the leading segments of the topic.
HashMatch(pattern, topic) ==
    /\ Len(topic) >= Len(pattern) - 1
    /\ \A i \in 1 .. (Len(pattern) - 1) :
           pattern[i] = <<"+">> \/ pattern[i] = topic[i]

\* C24: a client whose filters hold no '#' is matched with a published
\* topic only when one of its filters has as many segments as the topic
\* and each segment of it is '+' or equals the segment of the topic.
C24_PlainFilterMatchesSameLength ==
    [][\A packet \in MatchPackets, c \in MatchClients :
          (/\ HandlePublish(packet)
           /\ \A f \in HeldFilters(subscription_sessions, c) : ~Contains(f, "#")
           /\ OHas(last_publish'.subscribers, c))
          => \E f \in HeldFilters(subscription_sessions, c) :
                 PlainMatch(split(f, "/"), split(packet.topic, "/"))]_vars

\* C25: a client whose filters all end in '#' is matched with a published
\* topic exactly when the segments before '#' of one of its filters match
\* the leading segments of the topic.
C25_HashFilterMatchesSubtree ==
    [][\A packet \in MatchPackets, c \in MatchClients :
          (/\ HandlePublish(packet)
           /\ \A f \in HeldFilters(subscription_sessions, c) : Contains(f, "#"))
          => (OHas(last_publish'.subscribers, c)
              <=> \E f \in HeldFilters(subscription_sessions, c) :
                      HashMatch(split(f, "/"), split(packet.topic, "/")))]_vars

\* A topic filter matches a topic.
FilterMatch(filter, topic) ==
    IF Contains(filter, "#")
    THEN HashMatch(split(filter, "/"), split(topic, "/"))
    ELSE PlainMatch(split(filter, "/"), split(topic, "/"))

\* C26: the QoS get_matching_subscribers returns for a client is the
\* greatest QoS of the client's filters that match the topic, here for
\* the topics that every filter _match_topic accepts does match.
C26_MaximumQosOfMatchingFilters ==
    [][\A packet \in MatchPackets, c \in MatchClients :
          (/\ HandlePublish(packet)
           /\ OHas(last_publish'.subscribers, c)
           /\ \A f \in MatchingFilters(topic_tree, subscription_sessions, c,
                                       packet.topic) :
                  FilterMatch(f, packet.topic))
          => \A f \in MatchingFilters(topic_tree, subscription_sessions, c,
                                      packet.topic) :
                 OGet(last_publish'.subscribers, c)
                     >= OGet(OGet(subscription_sessions, c).subscriptions, f)]_vars

\* C30: when the session of a client is removed, no node of the topic tree
\* keeps the client among its subscribers.
C30_SessionRemovalClearsTree ==
    [][\A c \in MatchClients :
          RemoveSubscriberSession(c)
          => \A node \in DOMAIN topic_tree' : c \notin topic_tree'[node].subscribers]_vars

(***************************************************************************)
(* The handshake (connection.py)                                           *)
(***************************************************************************)

\* The first packet of the stream is a CONNECT that _decode_connect_packet
\* decodes.
DecodedConnect(stream) ==
    /\ ~stream.error
    /\ stream.bytes # <<>>
    /\ stream.bytes[1] \div 16 = CONNECT
    /\ LET length == read_remaining_length(stream.bytes, 1, 1, 0)
       IN /\ length.ok
          /\ decode_connect_packet(
                 Slice(stream.bytes, length.pos, length.remaining_length)).ok

\* The CONNECT of the stream is not of the protocol MQTT at level 4.
OtherProtocol(stream) ==
    /\ DecodedConnect(stream)
    /\ LET r == read_connect(stream)
       IN r.protocol_name # <<"M", "Q", "T", "T">> \/ r.protocol_level # 4

\* The attachment a step has begun was closed with nothing written to it.
Refused ==
    /\ Len(writers') = Len(writers) + 1
    /\ writers'[Len(writers')].closed
    /\ writers'[Len(writers')].pc = "refused"

\* C31: a CONNECT whose protocol name is not MQTT or whose protocol level
\* is not 4 is refused: its transport is closed with no CONNACK written,
\* and connections, session_states and will_messages stay as they were.
C31_OtherProtocolRefused ==
    [][\A stream \in HandshakeStreams :
          (OtherProtocol(stream) /\ NewConnection(stream))
          => (Refused /\ UNCHANGED <<connections, session_states, will_messages>>)]_vars

Superseded(w) ==
    /\ writers[w].client_id \in DOMAIN connections
    /\ connections[writers[w].client_id] # w

\* C33: when the sleep of the keep-alive monitor of a superseded
\* attachment ends, the monitor does not close the writer of the newer
\* attachment, and it neither hands the will registered by the newer
\* CONNECT to the publish path nor removes it.
C33_MonitorActsOnOwnAttachment ==
    [][\A w \in DOMAIN writers :
          (Superseded(w) /\ MonitorWake(w))
          => /\ \A v \in DOMAIN writers \ {w} :
                    writers'[v].closed = writers[v].closed
             /\ will_log' = <<>>
             /\ will_messages' = will_messages]_vars

\* A new CONNECT of the client was processed and acknowledged while the
\* call d of handle_client_disconnect waited for its writer to close:
\* a writer made after the one the call closes is registered.
OvertakenDisconnect(d) ==
    LET client_id == disconnects[d].client_id
    IN /\ client_id \in DOMAIN connections
       /\ connections[client_id] > disconnects[d].writer
       /\ writers[connections[client_id]].pc = "established"
       /\ client_id \in DOMAIN session_states

\* C34: when handle_client_disconnect for a former attachment goes on
\* after a new CONNECT of the client was processed, it leaves the new
\* writer in connections and the session of the new CONNECT in
\* session_states.
C34_OldCleanupSparesNewAttachment ==
    [][\A d \in DOMAIN disconnects :
          (OvertakenDisconnect(d) /\ DisconnectClosed(d))
          => /\ connections' = connections
             /\ session_states' = session_states]_vars

\* C35: when calls of handle_client_disconnect for abnormal ends of one
\* attachment overlap, a call that begins while another waits for the
\* writer to close hands no will to the publish path, and no call raises
\* when it goes on.
C35_OverlappingAbnormalEnds ==
    [][/\ \A c \in ConnectClients :
             (/\ \E d \in DOMAIN disconnects :
                    /\ disconnects[d].client_id = c
                    /\ c \in DOMAIN connections
                    /\ connections[c] = disconnects[d].writer
              /\ Disconnect(c, TRUE))
             => will_log' = <<>>
       /\ \A d \in DOMAIN disconnects : DisconnectClosed(d) => raised' = "none"]_vars

\* C40: a call of handle_client_disconnect for a clean disconnect of a
\* client's attachment leaves no will registered for the client when it
\* ends, and a later call for an abnormal end of a client that is not
\* attached hands no will to the publish path.
C40_NoWillAfterCleanDisconnect ==
    [][/\ \A d \in DOMAIN disconnects :
             (/\ ~disconnects[d].unexpected
              /\ disconnects[d].client_id \in DOMAIN connections
              /\ connections[disconnects[d].client_id] = disconnects[d].writer
              /\ DisconnectClosed(d))
             => disconnects[d].client_id \notin DOMAIN will_messages'
       /\ \A c \in ConnectClients :
             (c \notin DOMAIN connections /\ Disconnect(c, TRUE))
             => will_log' = <<>>]_vars

(***************************************************************************)
(* Retry tasks                                                             *)
(***************************************************************************)

\* The session the retry task t was started for is gone: no session of
\* the task's client holds the task's message, which was not acknowledged.
SessionGone(t) ==
    LET task == session_tasks[t]
        msg == session_messages[task.qos_message]
    IN /\ ~msg.ack_received
       /\ \/ task.client_id \notin DOMAIN sessions
          \/ msg.message_id \notin DOMAIN sessions[task.client_id].pending_messages
          \/ sessions[task.client_id].pending_messages[msg.message_id]
                 # task.qos_message

\* C36: when the sleep of a retry task ends after the session of its
\* message was removed or replaced, the task sets no DUP flag, changes no
\* retry counter and no message state, and removes nothing from the
\* pending messages of a session.
C36_RetryTaskEndsWithSession ==
    [][\A t \in DOMAIN session_tasks :
          (SessionGone(t) /\ SessionRetryWake(t))
          => /\ session_messages' = session_messages
             /\ session_tasks'[t].dup = session_tasks[t].dup
             /\ sessions' = sessions]_vars

\* PUBREC has been received for the QoS 2 message of the retry task t.
PubrecReceived(t) ==
    /\ retry_tasks[t].qos_message # 0
    /\ qos_messages[retry_tasks[t].qos_message].qos_level = EXACTLY_ONCE
    /\ qos_messages[retry_tasks[t].qos_message].state = "PUBREC_RECEIVED"

\* C37: once PUBREC has been received for a QoS 2 message, the retry task
\* of the message sends the PUBLISH no more when its sleep ends (it sets
\* no DUP flag, counts no retry and calls no retransmit callback), and the
\* state PUBREC_RECEIVED is not overwritten by a retransmission.
C37_NoPublishRetryAfterPubrec ==
    [][\A t \in DOMAIN retry_tasks :
          /\ (PubrecReceived(t) /\ RetryWake(t))
             => /\ retry_tasks'[t].dup = retry_tasks[t].dup
                /\ retry_tasks'[t].retry_count = retry_tasks[t].retry_count
                /\ retry_tasks'[t].pc # "callback"
          /\ (PubrecReceived(t) /\ \E ok \in BOOLEAN : RetryCallbackDone(t, ok))
             => qos_messages'[retry_tasks[t].qos_message].state
                    \in {"PUBREC_RECEIVED", "EXPIRED"}]_vars


\* The entry of a client in a result of get_matching_subscribers: whether
\* the client is matched, and with which QoS.
MatchOf(result, client_id) ==
    IF OHas(result, client_id)
    THEN <<TRUE, OGet(result, client_id)>>
    ELSE <<FALSE, 0>>

\* C39: whether get_matching_subscribers(t) includes a client, and at which
\* QoS, depends only on t and the client's own subscription filters: a step
\* of the broker that leaves the client's subscriptions as they were (another
\* client subscribes, or its session is removed) leaves the client's entry
\* of the result as it was, for every topic.
C39_MatchDependsOnOwnFilters ==
    [][\A c \in MatchClients, t \in MatchTopics :
          (/\ OHas(subscription_sessions, c)
           /\ OHas(subscription_sessions', c)
           /\ OGet(subscription_sessions', c).subscriptions
                  = OGet(subscription_sessions, c).subscriptions)
          => MatchOf(get_matching_subscribers(topic_tree', subscription_sessions', t), c)
                 = MatchOf(get_matching_subscribers(topic_tree, subscription_sessions, t), c)]_vars


\* The message m of the PublishHandler is in pending_qos_messages.
PublishPending(m) ==
    /\ m \in DOMAIN qos_messages
    /\ \E id \in DOMAIN pending_qos_messages : pending_qos_messages[id] = m

\* The message m of the MessageHandler is in the pending_messages of a
\* session.
SessionPending(m) ==
    /\ m \in DOMAIN session_messages
    /\ \E c \in DOMAIN sessions :
          \E id \in DOMAIN sessions[c].pending_messages :
              sessions[c].pending_messages[id] = m

\* The message m of the PublishHandler is in no pending table and its retry
\* task has ended.
PublishSettled(m) ==
    /\ m \in DOMAIN retry_tasks
    /\ ~PublishPending(m)
    /\ retry_tasks[m].pc = "done"

\* The message m of the MessageHandler is in no pending table and its retry
\* task has ended.
SessionSettled(m) ==
    /\ m \in DOMAIN session_tasks
    /\ ~SessionPending(m)
    /\ session_tasks[m].pc = "done"

====
